---------------------------- MODULE Spec2Model ----------------------------
(***************************************************************************)
(* A model of the per-tick agent update pipeline of history-game:          *)
(* drive dynamics, episode formation, action selection, action execution,  *)
(* the perception sweep and the clock, composed by processTick.            *)
(*                                                                         *)
(* Numbers.  The program computes in 32-bit floats; the model computes in  *)
(* fixed point.  Drive intensities, drive deltas, rates, factors and       *)
(* preferences are integers in thousandths (Unit = 1000 stands for 1.0),   *)
(* products are rescaled with integer division.  Positions are points of   *)
(* an integer grid and distances are compared through their squares.      *)
(*                                                                         *)
(* Records.  A handle (ref_type) is modelled by the value of the record    *)
(* it refers to.  std::optional<T> is a sequence of length 0 or 1.         *)
(***************************************************************************)
EXTENDS Integers, Sequences, FiniteSets, TLC

VARIABLES
  world,                \* the World the runner currently holds
  params,               \* NPCUpdateParams of the run
  perception_range,     \* perception radius handed to processTick
  initial_world,        \* the World the run started from
  tick_input,           \* processTick: its argument `world` in the last tick
  world_with_actions,   \* processTick: local of the last tick
  world_after_actions,  \* processTick: local of the last tick
  perceptions,          \* processPerceptions: local `perceptions` of the last sweep, if any
  similar_lookups,      \* per agent, what findSimilarEpisode returned in the last tick
  events,               \* the events handed to the logger so far, in order
  callback_calls,       \* the calls of the per-tick callback so far, in order
  finished,             \* runSimulation has returned and main has logged the end
  arguments,            \* the arguments of a function called on its own, if any
  returned,             \* what that call returned, if it has returned
  logger                \* a SimulationLogger and the file it writes

vars == <<world, params, perception_range, initial_world, tick_input,
          world_with_actions, world_after_actions, perceptions, similar_lookups,
          events, callback_calls, finished, arguments, returned, logger>>

-----------------------------------------------------------------------------
(* Bounds of the model *)

MaxTicks == 4

-----------------------------------------------------------------------------
(* Program constants *)

Unit == 1000
MAX_BUFFER == 20
WORLD_SIZE == 1000
SocialRadius == 10
ObjectRadius == 5
ArrivalDistance == 10
MoveSpeed == 30
MinRandomSpeed == 5
MaxRandomSpeed == 20
MaxIntensity == 100 * Unit
MaxLoggedEntities == 10

DriveKinds == {"Belonging", "Grief", "Curiosity", "Sustenance", "Shelter", "Pride"}
ActionKinds == {"Move", "Observe", "Give", "Take", "Rest", "Build", "Plant",
                "Bury", "Gesture", "Follow"}
ObjectCategories == {"Food", "Structure", "Tool", "Burial", "Plant", "Marker"}

-----------------------------------------------------------------------------
(* Generic helpers *)

Min(a, b) == IF a <= b THEN a ELSE b
Max(a, b) == IF a >= b THEN a ELSE b
Abs(a) == IF a < 0 THEN -a ELSE a

\* C++ integer conversion and float-to-int casts truncate toward zero
TruncDiv(a, b) == IF a >= 0 THEN a \div b ELSE -((-a) \div b)

\* a * b / Unit, the fixed-point product
Mul(a, b) == TruncDiv(a * b, Unit)

Some(v) == <<v>>
None == <<>>
HasValue(o) == Len(o) > 0
Value(o) == o[1]

RECURSIVE ISqrtFrom(_, _)
ISqrtFrom(n, r) == IF (r + 1) * (r + 1) > n THEN r ELSE ISqrtFrom(n, r + 1)
ISqrt(n) == ISqrtFrom(n, 0)

Reverse(s) == [i \in 1..Len(s) |-> s[Len(s) + 1 - i]]

\* the sequences built by taking one element of each set of setSeq, in order
RECURSIVE Choices(_)
Choices(setSeq) ==
  IF Len(setSeq) = 0 THEN {<<>>}
  ELSE {<<h>> \o t : h \in Head(setSeq), t \in Choices(Tail(setSeq))}

-----------------------------------------------------------------------------
(* Data model *)

Position(x, y) == [x |-> x, y |-> y]

Entity(id, position) == [id |-> id, position |-> position]

NPCIdentity(entity, current_action, target_entity, target_object) ==
  [entity |-> entity, current_action |-> current_action,
   target_entity |-> target_entity, target_object |-> target_object]

Drive(type, intensity) == [type |-> type, intensity |-> intensity]

WorldObject(entity, category, created_by) ==
  [entity |-> entity, category |-> category, created_by |-> created_by]

MemoryEntry(timestamp, actor, action, target_entity, target_object) ==
  [timestamp |-> timestamp, actor |-> actor, action |-> action,
   target_entity |-> target_entity, target_object |-> target_object]

ActionStep(memory, delay_after_previous) ==
  [memory |-> memory, delay_after_previous |-> delay_after_previous]

ActionSequence(id, steps) == [id |-> id, steps |-> steps]

MemoryEpisode(start_time, end_time, action_sequence, drive_impacts, repetition_count) ==
  [start_time |-> start_time, end_time |-> end_time,
   action_sequence |-> action_sequence, drive_impacts |-> drive_impacts,
   repetition_count |-> repetition_count]

LocationPoint(position, radius) == [position |-> position, radius |-> radius]

Relationship(target_kind, target, familiarity) ==
  [target_kind |-> target_kind, target |-> target, familiarity |-> familiarity]

NPC(identity, drives, perception, episodic_memory, observed_behaviors, relationships) ==
  [identity |-> identity, drives |-> drives, perception |-> perception,
   episodic_memory |-> episodic_memory, observed_behaviors |-> observed_behaviors,
   relationships |-> relationships]

SimulationClock(tick, generation, generation_length) ==
  [current_tick |-> tick, current_generation |-> generation,
   ticks_per_generation |-> generation_length]

World(clock, npcs, objects) == [clock |-> clock, npcs |-> npcs, objects |-> objects]

DriveParameters(growth_rate, intensity, modifiers) ==
  [base_growth_rate |-> growth_rate, intensity_factor |-> intensity,
   drive_growth_modifiers |-> modifiers]

NPCUpdateParams(drives, f_pref, s_pref, rand, sig_threshold, max_gap, min_length) ==
  [drive_params |-> drives, familiarity_preference |-> f_pref,
   social_preference |-> s_pref, randomness |-> rand,
   significance_threshold |-> sig_threshold, max_sequence_gap |-> max_gap,
   min_sequence_length |-> min_length]

\* a SimulationEvent: its type name, and the tick number or entity id it carries
SimulationEvent(type, tick, entity) == [type |-> type, tick |-> tick, entity |-> entity]

\* a SimulationLogger as constructed: is_initialized and has_events false;
\* file_stream is written as the pieces of text the file holds, in order
NewLogger == [is_initialized |-> FALSE, has_events |-> FALSE, file_stream |-> <<>>]

getId(e) == IF "identity" \in DOMAIN e THEN e.identity.entity.id ELSE e.entity.id

getPosition(e) ==
  IF "identity" \in DOMAIN e THEN e.identity.entity.position ELSE e.entity.position

-----------------------------------------------------------------------------
(* Simulation clock *)

\* the generation test made on the tick being left instead of the one entered
advanceClockOldTick(clock) ==
  LET new_tick == clock.current_tick + 1
      new_generation ==
        IF clock.current_tick % clock.ticks_per_generation = 0
        THEN clock.current_generation + 1
        ELSE clock.current_generation
  IN SimulationClock(new_tick, new_generation, clock.ticks_per_generation)

advanceClock(clock) ==
  LET new_tick == clock.current_tick + 1
      new_generation ==
        IF new_tick % clock.ticks_per_generation = 0
        THEN clock.current_generation + 1
        ELSE clock.current_generation
  IN SimulationClock(new_tick, new_generation, clock.ticks_per_generation)

-----------------------------------------------------------------------------
(* Drive dynamics *)

areSameDriveTypes(a, b) == a = b

RECURSIVE getGrowthModifierFrom(_, _, _)
getGrowthModifierFrom(drive_type, modifiers, i) ==
  IF i > Len(modifiers) THEN Unit
  ELSE IF areSameDriveTypes(drive_type, modifiers[i][1]) THEN modifiers[i][2]
  ELSE getGrowthModifierFrom(drive_type, modifiers, i + 1)

getGrowthModifier(drive_type, modifiers) == getGrowthModifierFrom(drive_type, modifiers, 1)

\* The growth of one drive.  First the growth that stops one unit short of
\* the top, then the growth without the upper clamp, then updateDrive.
updateDriveStoppingShort(drive, dparams, ticks_elapsed) ==
  LET growth_modifier == getGrowthModifier(drive.type, dparams.drive_growth_modifiers)
      increase_rate == Mul(dparams.base_growth_rate, growth_modifier)
      intensity_multiplier ==
        Unit + Mul(drive.intensity \div 100, dparams.intensity_factor)
      increase == Mul(increase_rate, intensity_multiplier) * ticks_elapsed
  IN Drive(drive.type, Min(MaxIntensity - Unit, drive.intensity + increase))

updateDriveUnclamped(drive, dparams, ticks_elapsed) ==
  LET growth_modifier == getGrowthModifier(drive.type, dparams.drive_growth_modifiers)
      increase_rate == Mul(dparams.base_growth_rate, growth_modifier)
      intensity_multiplier ==
        Unit + Mul(drive.intensity \div 100, dparams.intensity_factor)
      increase == Mul(increase_rate, intensity_multiplier) * ticks_elapsed
  IN Drive(drive.type, drive.intensity + increase)

updateDrive(drive, dparams, ticks_elapsed) ==
  LET growth_modifier == getGrowthModifier(drive.type, dparams.drive_growth_modifiers)
      increase_rate == Mul(dparams.base_growth_rate, growth_modifier)
      intensity_multiplier ==
        Unit + Mul(drive.intensity \div 100, dparams.intensity_factor)
      increase == Mul(increase_rate, intensity_multiplier) * ticks_elapsed
      new_intensity == Min(MaxIntensity, drive.intensity + increase)
  IN Drive(drive.type, new_intensity)

\* the growth applied twice over
updateDrivesTwice(npc, dparams, ticks_elapsed) ==
  LET updated_drives ==
        [i \in 1..Len(npc.drives) |->
           updateDrive(updateDrive(npc.drives[i], dparams, ticks_elapsed),
                       dparams, ticks_elapsed)]
  IN NPC(npc.identity, updated_drives, npc.perception, npc.episodic_memory,
         npc.observed_behaviors, npc.relationships)

updateDrives(npc, dparams, ticks_elapsed) ==
  LET updated_drives ==
        [i \in 1..Len(npc.drives) |-> updateDrive(npc.drives[i], dparams, ticks_elapsed)]
  IN NPC(npc.identity, updated_drives, npc.perception, npc.episodic_memory,
         npc.observed_behaviors, npc.relationships)

-----------------------------------------------------------------------------
(* Relationships *)

contains(location, pos) ==
  LET dx == pos.x - location.position.x
      dy == pos.y - location.position.y
  IN dx * dx + dy * dy <= location.radius * location.radius

RECURSIVE findRelationshipFrom(_, _, _, _)
findRelationshipFrom(relationships, kind, target_to_find, i) ==
  IF i > Len(relationships) THEN None
  ELSE IF relationships[i].target_kind = kind /\ relationships[i].target = target_to_find
       THEN Some(relationships[i])
       ELSE findRelationshipFrom(relationships, kind, target_to_find, i + 1)

findRelationship(relationships, kind, target_to_find) ==
  findRelationshipFrom(relationships, kind, target_to_find, 1)

RECURSIVE findLocationRelationshipFrom(_, _, _)
findLocationRelationshipFrom(relationships, position, i) ==
  IF i > Len(relationships) THEN None
  ELSE IF relationships[i].target_kind = "Location"
          /\ contains(relationships[i].target, position)
       THEN Some(relationships[i])
       ELSE findLocationRelationshipFrom(relationships, position, i + 1)

findLocationRelationship(relationships, position) ==
  findLocationRelationshipFrom(relationships, position, 1)

-----------------------------------------------------------------------------
(* Drive-impact evaluator.  An ActionContext is (observer, memory, time). *)

ActionContext(npc, memory_entry, time) ==
  [observer |-> npc, memory |-> memory_entry, current_time |-> time]

findActorRelationship(context) ==
  findRelationship(context.observer.relationships, "Entity", context.memory.actor.entity)

findActionLocationRelationship(context) ==
  LET location_entity ==
        IF HasValue(context.memory.target_entity)
        THEN Value(context.memory.target_entity)
        ELSE context.memory.actor.entity
  IN findLocationRelationship(context.observer.relationships, location_entity.position)

getFamiliarity(relationship) ==
  IF HasValue(relationship) THEN Value(relationship).familiarity ELSE 0

getActionImpacts(action, context) ==
  LET actor_familiarity == getFamiliarity(findActorRelationship(context))
      location_familiarity == getFamiliarity(findActionLocationRelationship(context))
  IN CASE action = "Observe" ->
            LET familiarity_factor ==
                  Unit - TruncDiv(actor_familiarity + location_familiarity, 2)
            IN <<Drive("Curiosity", Mul(-100, Unit + familiarity_factor))>>
       [] action = "Follow" ->
            <<Drive("Belonging", Mul(-200, Unit + actor_familiarity))>>
       [] action = "Rest" ->
            <<Drive("Sustenance", Mul(-300, Unit + location_familiarity))>>
            \o (IF location_familiarity > 300
                THEN <<Drive("Shelter", Mul(-200, location_familiarity))>>
                ELSE <<>>)
       [] OTHER -> <<>>

RECURSIVE currentLevelFactor(_, _, _)
currentLevelFactor(type, current_drives, i) ==
  IF i > Len(current_drives) THEN 0
  ELSE IF areSameDriveTypes(type, current_drives[i].type)
       THEN current_drives[i].intensity \div 100
       ELSE currentLevelFactor(type, current_drives, i + 1)

adjustImpacts(impacts, current_drives) ==
  [k \in 1..Len(impacts) |->
     Drive(impacts[k].type,
           Mul(impacts[k].intensity,
               Unit + currentLevelFactor(impacts[k].type, current_drives, 1)))]

evaluateImpact(context) ==
  adjustImpacts(getActionImpacts(context.memory.action, context),
                context.observer.drives)

RECURSIVE SumMagnitude(_)
SumMagnitude(impact_set) ==
  IF Len(impact_set) = 0 THEN 0
  ELSE Abs(Head(impact_set).intensity) + SumMagnitude(Tail(impact_set))

RECURSIVE TotalMagnitude(_)
TotalMagnitude(impacts) ==
  IF Len(impacts) = 0 THEN 0
  ELSE SumMagnitude(Head(impacts)) + TotalMagnitude(Tail(impacts))

RECURSIVE TotalImpacts(_)
TotalImpacts(impacts) ==
  IF Len(impacts) = 0 THEN 0 ELSE Len(Head(impacts)) + TotalImpacts(Tail(impacts))

hasEmotionalSignificance(impacts, significance_threshold) ==
  LET total_magnitude == TotalMagnitude(impacts)
      total_impacts == TotalImpacts(impacts)
      avg_impact == IF total_impacts > 0 THEN total_magnitude \div total_impacts ELSE 0
  IN avg_impact >= significance_threshold

-----------------------------------------------------------------------------
(* Episode formation *)

\* insertion of entry e after every entry whose timestamp is not greater
RECURSIVE InsertByTimestamp(_, _)
InsertByTimestamp(sorted, e) ==
  IF Len(sorted) = 0 THEN <<e>>
  ELSE IF e.timestamp < Head(sorted).timestamp THEN <<e>> \o sorted
  ELSE <<Head(sorted)>> \o InsertByTimestamp(Tail(sorted), e)

RECURSIVE StableSortByTimestamp(_)
StableSortByTimestamp(entries) ==
  IF Len(entries) = 0 THEN <<>>
  ELSE InsertByTimestamp(StableSortByTimestamp(SubSeq(entries, 1, Len(entries) - 1)),
                         entries[Len(entries)])

\* std::sort orders by timestamp and leaves the order of entries with equal
\* timestamps unspecified: the orders considered keep equal timestamps in
\* buffer order, or in reverse buffer order.
SortedPerceptions(recent_perceptions) ==
  {StableSortByTimestamp(recent_perceptions),
   StableSortByTimestamp(Reverse(recent_perceptions))}

\* the scan of identifyActionSequences over the sorted entries, from index i,
\* with the sequences closed so far and the sequence being accumulated
RECURSIVE ScanSequences(_, _, _, _, _, _)
ScanSequences(sorted, i, sequences, current_sequence, max_sequence_gap, min_sequence_length) ==
  IF i > Len(sorted)
  THEN IF Len(current_sequence) >= min_sequence_length
       THEN Append(sequences, current_sequence)
       ELSE sequences
  ELSE LET perception == sorted[i] IN
       IF Len(current_sequence) = 0
       THEN ScanSequences(sorted, i + 1, sequences, <<perception>>,
                          max_sequence_gap, min_sequence_length)
       ELSE LET last_action == current_sequence[Len(current_sequence)] IN
            IF perception.timestamp - last_action.timestamp <= max_sequence_gap
            THEN ScanSequences(sorted, i + 1, sequences,
                               Append(current_sequence, perception),
                               max_sequence_gap, min_sequence_length)
            ELSE ScanSequences(sorted, i + 1,
                               IF Len(current_sequence) >= min_sequence_length
                               THEN Append(sequences, current_sequence)
                               ELSE sequences,
                               <<perception>>, max_sequence_gap, min_sequence_length)

\* the scan, and before it the scan that splits at a difference equal to the gap
identifyActionSequencesStrictGap(sorted_perceptions, max_sequence_gap, min_sequence_length) ==
  ScanSequences(sorted_perceptions, 1, <<>>, <<>>, max_sequence_gap - 1, min_sequence_length)

identifyActionSequences(sorted_perceptions, max_sequence_gap, min_sequence_length) ==
  ScanSequences(sorted_perceptions, 1, <<>>, <<>>, max_sequence_gap, min_sequence_length)

createActionSequence(entries, sequence_id) ==
  ActionSequence(sequence_id,
    [i \in 1..Len(entries) |->
       IF i = 1 THEN ActionStep(entries[1], 0)
       ELSE ActionStep(entries[i], entries[i].timestamp - entries[i - 1].timestamp)])

RECURSIVE IndexOfType(_, _, _)
IndexOfType(drives, type, i) ==
  IF i > Len(drives) THEN 0
  ELSE IF areSameDriveTypes(drives[i].type, type) THEN i
  ELSE IndexOfType(drives, type, i + 1)

\* one impact folded into the combined impacts
CombineImpact(combined_impacts, impact) ==
  LET k == IndexOfType(combined_impacts, impact.type, 1) IN
  IF k = 0 THEN Append(combined_impacts, impact)
  ELSE [combined_impacts EXCEPT ![k] =
          Drive(combined_impacts[k].type,
                TruncDiv((combined_impacts[k].intensity + impact.intensity) * 6, 10))]

RECURSIVE CombineImpacts(_, _)
CombineImpacts(combined_impacts, impacts) ==
  IF Len(impacts) = 0 THEN combined_impacts
  ELSE CombineImpacts(CombineImpact(combined_impacts, Head(impacts)), Tail(impacts))

RECURSIVE CombineAll(_, _)
CombineAll(combined_impacts, all_impacts) ==
  IF Len(all_impacts) = 0 THEN combined_impacts
  ELSE CombineAll(CombineImpacts(combined_impacts, Head(all_impacts)), Tail(all_impacts))

evaluateSequenceImpact(npc, sequence, current_time) ==
  LET all_impacts ==
        [i \in 1..Len(sequence) |->
           evaluateImpact(ActionContext(npc, sequence[i], current_time))]
  IN CombineAll(<<>>, all_impacts)

\* start and end taken from the wrong ends of the sequence
createMemoryEpisodeSwapped(sequence, impacts, sequence_id, repetition_count) ==
  LET start_time == sequence[Len(sequence)].timestamp
      end_time == sequence[1].timestamp
      action_sequence == createActionSequence(sequence, sequence_id)
  IN MemoryEpisode(start_time, end_time, action_sequence, impacts, repetition_count)

createMemoryEpisode(sequence, impacts, sequence_id, repetition_count) ==
  LET start_time == sequence[1].timestamp
      end_time == sequence[Len(sequence)].timestamp
      action_sequence == createActionSequence(sequence, sequence_id)
  IN MemoryEpisode(start_time, end_time, action_sequence, impacts, repetition_count)

DummyEpisode == MemoryEpisode(0, 0, ActionSequence(<<"__dummy__">>, <<>>), <<>>, 0)

RECURSIVE findSameLengthFrom(_, _, _)
findSameLengthFrom(episodes, sequence, i) ==
  IF i > Len(episodes) THEN 0
  ELSE IF Len(episodes[i].action_sequence.steps) = Len(sequence.steps) THEN i
  ELSE findSameLengthFrom(episodes, sequence, i + 1)

findSimilarEpisode(episodes, sequence) ==
  LET k == findSameLengthFrom(episodes, sequence, 1) IN
  IF k > 0 THEN episodes[k]
  ELSE IF Len(episodes) > 0 THEN episodes[1]
  ELSE DummyEpisode

\* episodeFor with the "nothing similar" result taken for a match
episodeForAnyResult(npc, sequence, impacts, current_time) ==
  LET sequence_id == <<"seq", current_time, Len(sequence)>>
      action_sequence == createActionSequence(sequence, sequence_id)
      similar_episode == findSimilarEpisode(npc.episodic_memory, action_sequence)
  IN IF similar_episode.repetition_count >= 0
     THEN MemoryEpisode(similar_episode.start_time, similar_episode.end_time,
                        similar_episode.action_sequence, similar_episode.drive_impacts,
                        similar_episode.repetition_count + 1)
     ELSE createMemoryEpisode(sequence, impacts, sequence_id, 1)

\* the episode formEpisodicMemories emits for one significant sequence
episodeFor(npc, sequence, impacts, current_time) ==
  LET sequence_id == <<"seq", current_time, Len(sequence)>>
      action_sequence == createActionSequence(sequence, sequence_id)
      similar_episode == findSimilarEpisode(npc.episodic_memory, action_sequence)
  IN IF similar_episode.repetition_count > 0
     THEN MemoryEpisode(similar_episode.start_time, similar_episode.end_time,
                        similar_episode.action_sequence, similar_episode.drive_impacts,
                        similar_episode.repetition_count + 1)
     ELSE createMemoryEpisode(sequence, impacts, sequence_id, 1)

\* an episode emitted for every candidate sequence, significant or not
RECURSIVE newEpisodesUnfiltered(_, _, _, _)
newEpisodesUnfiltered(npc, sequences, current_time, significance_threshold) ==
  IF Len(sequences) = 0 THEN <<>>
  ELSE <<episodeFor(npc, Head(sequences),
                    evaluateSequenceImpact(npc, Head(sequences), current_time),
                    current_time)>>
       \o newEpisodesUnfiltered(npc, Tail(sequences), current_time, significance_threshold)

RECURSIVE newEpisodes(_, _, _, _)
newEpisodes(npc, sequences, current_time, significance_threshold) ==
  IF Len(sequences) = 0 THEN <<>>
  ELSE LET sequence == Head(sequences)
           impacts == evaluateSequenceImpact(npc, sequence, current_time)
           rest == newEpisodes(npc, Tail(sequences), current_time, significance_threshold)
       IN IF hasEmotionalSignificance(<<impacts>>, significance_threshold)
          THEN <<episodeFor(npc, sequence, impacts, current_time)>> \o rest
          ELSE rest

\* what the calls of findSimilarEpisode in formEpisodicMemories return, one
\* per significant sequence, in call order
RECURSIVE similarEpisodes(_, _, _, _)
similarEpisodes(npc, sequences, current_time, significance_threshold) ==
  IF Len(sequences) = 0 THEN <<>>
  ELSE LET sequence == Head(sequences)
           impacts == evaluateSequenceImpact(npc, sequence, current_time)
           sequence_id == <<"seq", current_time, Len(sequence)>>
           action_sequence == createActionSequence(sequence, sequence_id)
           rest == similarEpisodes(npc, Tail(sequences), current_time,
                                   significance_threshold)
       IN IF hasEmotionalSignificance(<<impacts>>, significance_threshold)
          THEN <<findSimilarEpisode(npc.episodic_memory, action_sequence)>> \o rest
          ELSE rest

\* formEpisodicMemories for one order in which std::sort left the buffer:
\* first with the new episodes put in front of the stored ones, then as it is
formEpisodicMemoriesSortedNewestFirst(npc, sorted_perceptions, current_time, significance_threshold, max_sequence_gap, min_sequence_length) ==
  LET sequences == identifyActionSequences(sorted_perceptions, max_sequence_gap,
                                           min_sequence_length)
      new_episodes == newEpisodes(npc, sequences, current_time, significance_threshold)
  IN IF Len(sequences) = 0 THEN npc
     ELSE IF Len(new_episodes) = 0 THEN npc
     ELSE NPC(npc.identity, npc.drives, npc.perception,
              new_episodes \o npc.episodic_memory,
              npc.observed_behaviors, npc.relationships)

formEpisodicMemoriesSorted(npc, sorted_perceptions, current_time, significance_threshold, max_sequence_gap, min_sequence_length) ==
  LET sequences == identifyActionSequences(sorted_perceptions, max_sequence_gap,
                                           min_sequence_length)
      new_episodes == newEpisodes(npc, sequences, current_time, significance_threshold)
  IN IF Len(sequences) = 0 THEN npc
     ELSE IF Len(new_episodes) = 0 THEN npc
     ELSE NPC(npc.identity, npc.drives, npc.perception,
              npc.episodic_memory \o new_episodes,
              npc.observed_behaviors, npc.relationships)

\* the agents formEpisodicMemories may return
formEpisodicMemories(npc, current_time, significance_threshold, max_sequence_gap, min_sequence_length) ==
  {formEpisodicMemoriesSorted(npc, sorted, current_time, significance_threshold,
                              max_sequence_gap, min_sequence_length) :
     sorted \in SortedPerceptions(npc.perception)}

-----------------------------------------------------------------------------
(* Action selection *)

ActionOption(action, target_entity, target_object, impacts, is_from_memory) ==
  [action |-> action, target_entity |-> target_entity, target_object |-> target_object,
   expected_impacts |-> impacts, from_memory |-> is_from_memory]

ActionSelectionCriteria(drives, f_pref, s_pref, rand) ==
  [current_drives |-> drives, familiarity_preference |-> f_pref,
   social_preference |-> s_pref, randomness |-> rand]

DistanceSquared(pos1, pos2) ==
  (pos1.x - pos2.x) * (pos1.x - pos2.x) + (pos1.y - pos2.y) * (pos1.y - pos2.y)

RECURSIVE impactScore(_, _)
impactScore(drive, impacts) ==
  IF Len(impacts) = 0 THEN 0
  ELSE (IF areSameDriveTypes(drive.type, Head(impacts).type)
        THEN (-Head(impacts).intensity) * drive.intensity
        ELSE 0)
       + impactScore(drive, Tail(impacts))

\* scores are in units of 1/(Unit * Unit)
RECURSIVE calculateDriveScoreFrom(_, _, _)
calculateDriveScoreFrom(option, current_drives, i) ==
  IF i > Len(current_drives) THEN 0
  ELSE (IF Abs(current_drives[i].intensity) < 100 THEN 0
        ELSE impactScore(current_drives[i], option.expected_impacts))
       + calculateDriveScoreFrom(option, current_drives, i + 1)

calculateDriveScore(option, current_drives) ==
  calculateDriveScoreFrom(option, current_drives, 1)

calculatePreferenceScore(option, criteria) ==
  (IF option.from_memory THEN criteria.familiarity_preference * 10 * Unit ELSE 0)
  + (IF HasValue(option.target_entity) THEN criteria.social_preference * 5 * Unit ELSE 0)

RECURSIVE npcOptions(_, _, _)
npcOptions(npc, world_npcs, i) ==
  IF i > Len(world_npcs) THEN <<>>
  ELSE LET other_npc == world_npcs[i] IN
       (IF other_npc.identity.entity.id = npc.identity.entity.id THEN <<>>
        ELSE IF DistanceSquared(npc.identity.entity.position,
                                other_npc.identity.entity.position)
                <= SocialRadius * SocialRadius
        THEN <<ActionOption("Follow", Some(other_npc.identity.entity), None,
                            <<Drive("Belonging", -300)>>, FALSE),
               ActionOption("Observe", Some(other_npc.identity.entity), None,
                            <<Drive("Curiosity", -200)>>, FALSE)>>
        ELSE <<>>)
       \o npcOptions(npc, world_npcs, i + 1)

RECURSIVE objectOptions(_, _, _)
objectOptions(npc, world_objects, i) ==
  IF i > Len(world_objects) THEN <<>>
  ELSE LET object == world_objects[i] IN
       (IF DistanceSquared(npc.identity.entity.position, object.entity.position)
           <= ObjectRadius * ObjectRadius
        THEN <<ActionOption("Observe", None, Some(object),
                            <<Drive("Curiosity", -200)>>, FALSE)>>
             \o (IF object.category = "Food"
                 THEN <<ActionOption("Take", None, Some(object),
                                     <<Drive("Sustenance", -500)>>, FALSE)>>
                 ELSE IF object.category = "Structure"
                 THEN <<ActionOption("Rest", None, Some(object),
                                     <<Drive("Shelter", -400), Drive("Sustenance", -300)>>,
                                     FALSE)>>
                 ELSE <<>>)
        ELSE <<>>)
       \o objectOptions(npc, world_objects, i + 1)

\* The options built from what is near and the three that need nothing near.
\* First, the generation that offers only what is near.
generatePrimitiveActionsOnlyNearby(npc, w) ==
  npcOptions(npc, w.npcs, 1) \o objectOptions(npc, w.objects, 1)

generatePrimitiveActions(npc, w) ==
  npcOptions(npc, w.npcs, 1)
  \o objectOptions(npc, w.objects, 1)
  \o <<ActionOption("Move", None, None, <<Drive("Curiosity", -200)>>, FALSE),
       ActionOption("Build", None, None,
                    <<Drive("Shelter", -300), Drive("Pride", -200)>>, FALSE),
       ActionOption("Gesture", None, None, <<Drive("Pride", -300)>>, FALSE)>>

\* the memory-derived options, first without the look for the target in the
\* world, then as generated
RECURSIVE memoryOptionsWithoutTargetCheck(_, _, _)
memoryOptionsWithoutTargetCheck(npc, w, i) ==
  IF i > Len(npc.episodic_memory) THEN <<>>
  ELSE LET episode == npc.episodic_memory[i] IN
       (IF episode.repetition_count < 2 \/ Len(episode.action_sequence.steps) = 0
        THEN <<>>
        ELSE LET memory == episode.action_sequence.steps[1].memory
             IN IF HasValue(memory.target_entity)
                THEN <<ActionOption(memory.action, memory.target_entity, None,
                                    episode.drive_impacts, TRUE)>>
                ELSE IF HasValue(memory.target_object)
                THEN <<ActionOption(memory.action, None, memory.target_object,
                                    episode.drive_impacts, TRUE)>>
                ELSE <<ActionOption(memory.action, None, None,
                                    episode.drive_impacts, TRUE)>>)
       \o memoryOptionsWithoutTargetCheck(npc, w, i + 1)

RECURSIVE memoryOptions(_, _, _)
memoryOptions(npc, w, i) ==
  IF i > Len(npc.episodic_memory) THEN <<>>
  ELSE LET episode == npc.episodic_memory[i] IN
       (IF episode.repetition_count < 2 \/ Len(episode.action_sequence.steps) = 0
        THEN <<>>
        ELSE LET memory == episode.action_sequence.steps[1].memory
                 entity_found ==
                   HasValue(memory.target_entity) =>
                     \E k \in 1..Len(w.npcs) :
                        w.npcs[k].identity.entity.id = Value(memory.target_entity).id
                 object_found ==
                   HasValue(memory.target_object) =>
                     \E k \in 1..Len(w.objects) :
                        w.objects[k].entity.id = Value(memory.target_object).entity.id
             IN IF ~(entity_found /\ object_found) THEN <<>>
                ELSE IF HasValue(memory.target_entity)
                THEN <<ActionOption(memory.action, memory.target_entity, None,
                                    episode.drive_impacts, TRUE)>>
                ELSE IF HasValue(memory.target_object)
                THEN <<ActionOption(memory.action, None, memory.target_object,
                                    episode.drive_impacts, TRUE)>>
                ELSE <<ActionOption(memory.action, None, None,
                                    episode.drive_impacts, TRUE)>>)
       \o memoryOptions(npc, w, i + 1)

generateMemoryBasedActions(npc, w) == memoryOptions(npc, w, 1)

totalScore(option, criteria) ==
  calculateDriveScore(option, criteria.current_drives)
  + calculatePreferenceScore(option, criteria)

\* The indices of the options selectAction may return.  std::sort leaves the
\* order of equal scores unspecified and the pick among the first top_n is
\* random, so an option may be returned iff fewer than top_n options score
\* strictly higher.  First, the pick drawn from one position too many.
selectActionOneTooMany(options, criteria) ==
  LET score == [i \in 1..Len(options) |-> totalScore(options[i], criteria)]
      top_n == IF criteria.randomness > 0 /\ Len(options) > 1
               THEN Min(1 + (criteria.randomness * 10) \div Unit, Len(options))
               ELSE 1
  IN {i \in 1..Len(options) :
        Cardinality({j \in 1..Len(options) : score[j] > score[i]}) < top_n + 1}

selectAction(options, criteria) ==
  LET score == [i \in 1..Len(options) |-> totalScore(options[i], criteria)]
      top_n == IF criteria.randomness > 0 /\ Len(options) > 1
               THEN Min(1 + (criteria.randomness * 10) \div Unit, Len(options))
               ELSE 1
  IN {i \in 1..Len(options) :
        Cardinality({j \in 1..Len(options) : score[j] > score[i]}) < top_n}

\* an identity that keeps the old target where the chosen option names none
updateIdentityKeepingOldTarget(identity, selected_action) ==
  NPCIdentity(identity.entity, Some(selected_action.action),
              IF HasValue(selected_action.target_entity)
              THEN selected_action.target_entity ELSE identity.target_entity,
              IF HasValue(selected_action.target_object)
              THEN selected_action.target_object ELSE identity.target_object)

updateIdentityWithAction(identity, selected_action) ==
  IF HasValue(selected_action.target_entity)
  THEN NPCIdentity(identity.entity, Some(selected_action.action),
                   selected_action.target_entity, None)
  ELSE IF HasValue(selected_action.target_object)
  THEN NPCIdentity(identity.entity, Some(selected_action.action),
                   None, selected_action.target_object)
  ELSE NPCIdentity(identity.entity, Some(selected_action.action), None, None)

\* selection that also empties the perception buffer of the agent it returns
selectNextActionClearingBuffer(npc, w, criteria) ==
  LET all_options == generatePrimitiveActions(npc, w) \o generateMemoryBasedActions(npc, w)
      selected == selectAction(all_options, criteria)
  IN IF selected = {} THEN {npc}
     ELSE {NPC(updateIdentityWithAction(npc.identity, all_options[i]),
               npc.drives, <<>>, npc.episodic_memory,
               npc.observed_behaviors, npc.relationships) : i \in selected}

selectNextAction(npc, w, criteria) ==
  LET all_options == generatePrimitiveActions(npc, w) \o generateMemoryBasedActions(npc, w)
      selected == selectAction(all_options, criteria)
  IN IF selected = {} THEN {npc}
     ELSE {NPC(updateIdentityWithAction(npc.identity, all_options[i]),
               npc.drives, npc.perception, npc.episodic_memory,
               npc.observed_behaviors, npc.relationships) : i \in selected}

-----------------------------------------------------------------------------
(* Action execution *)

\* displacements of an untargeted Move: a direction times a speed in [5, 20]
RandomMoves ==
  {<<MinRandomSpeed, 0>>,
   <<-((3 * MaxRandomSpeed) \div 5), -((4 * MaxRandomSpeed) \div 5)>>}

updateNPCPosition(npc, new_position) ==
  LET npc_identity == npc.identity
      new_entity == Entity(npc_identity.entity.id, new_position)
      new_identity ==
        IF HasValue(npc_identity.current_action)
        THEN IF HasValue(npc_identity.target_entity)
             THEN NPCIdentity(new_entity, npc_identity.current_action,
                              npc_identity.target_entity, None)
             ELSE IF HasValue(npc_identity.target_object)
             THEN NPCIdentity(new_entity, npc_identity.current_action,
                              None, npc_identity.target_object)
             ELSE NPCIdentity(new_entity, npc_identity.current_action, None, None)
        ELSE NPCIdentity(new_entity, None, None, None)
  IN NPC(new_identity, npc.drives, npc.perception, npc.episodic_memory,
         npc.observed_behaviors, npc.relationships)

\* The agents the Move handler may return.  First the handler that steps
\* toward its target however close it is, then the handler with the random
\* move not held inside the world, then the handler stepping a full MoveSpeed
\* whatever the distance left, then the handler itself.
executeMoveHoweverClose(npc) ==
  LET position == npc.identity.entity.position IN
  IF HasValue(npc.identity.target_entity)
  THEN LET target_pos == Value(npc.identity.target_entity).position
           dx == target_pos.x - position.x
           dy == target_pos.y - position.y
           distance_squared == dx * dx + dy * dy
           distance == ISqrt(distance_squared)
           actual_move == Min(MoveSpeed, distance)
       IN IF distance = 0 THEN {npc}
          ELSE {updateNPCPosition(npc,
                  Position(position.x + TruncDiv(dx * actual_move, distance),
                           position.y + TruncDiv(dy * actual_move, distance)))}
  ELSE {updateNPCPosition(npc,
          Position(Max(0, Min(WORLD_SIZE, position.x + d[1])),
                   Max(0, Min(WORLD_SIZE, position.y + d[2])))) : d \in RandomMoves}

executeMoveUnclamped(npc) ==
  LET position == npc.identity.entity.position IN
  IF HasValue(npc.identity.target_entity)
  THEN LET target_pos == Value(npc.identity.target_entity).position
           dx == target_pos.x - position.x
           dy == target_pos.y - position.y
           distance_squared == dx * dx + dy * dy
           distance == ISqrt(distance_squared)
           actual_move == Min(MoveSpeed, distance)
       IN IF distance_squared < ArrivalDistance * ArrivalDistance THEN {npc}
          ELSE {updateNPCPosition(npc,
                  Position(position.x + TruncDiv(dx * actual_move, distance),
                           position.y + TruncDiv(dy * actual_move, distance)))}
  ELSE {updateNPCPosition(npc, Position(position.x + d[1], position.y + d[2])) :
          d \in RandomMoves}

executeMoveFullStep(npc) ==
  LET position == npc.identity.entity.position IN
  IF HasValue(npc.identity.target_entity)
  THEN LET target_pos == Value(npc.identity.target_entity).position
           dx == target_pos.x - position.x
           dy == target_pos.y - position.y
           distance_squared == dx * dx + dy * dy
           distance == ISqrt(distance_squared)
       IN IF distance_squared < ArrivalDistance * ArrivalDistance THEN {npc}
          ELSE {updateNPCPosition(npc,
                  Position(position.x + TruncDiv(dx * MoveSpeed, distance),
                           position.y + TruncDiv(dy * MoveSpeed, distance)))}
  ELSE {updateNPCPosition(npc,
          Position(Max(0, Min(WORLD_SIZE, position.x + d[1])),
                   Max(0, Min(WORLD_SIZE, position.y + d[2])))) : d \in RandomMoves}

executeMove(npc) ==
  LET position == npc.identity.entity.position IN
  IF HasValue(npc.identity.target_entity)
  THEN LET target_pos == Value(npc.identity.target_entity).position
           dx == target_pos.x - position.x
           dy == target_pos.y - position.y
           distance_squared == dx * dx + dy * dy
           distance == ISqrt(distance_squared)
           actual_move == Min(MoveSpeed, distance)
       IN IF distance_squared < ArrivalDistance * ArrivalDistance THEN {npc}
          ELSE {updateNPCPosition(npc,
                  Position(position.x + TruncDiv(dx * actual_move, distance),
                           position.y + TruncDiv(dy * actual_move, distance)))}
  ELSE {updateNPCPosition(npc,
          Position(Max(0, Min(WORLD_SIZE, position.x + d[1])),
                   Max(0, Min(WORLD_SIZE, position.y + d[2])))) : d \in RandomMoves}

\* every action handled by the Move handler; like executeAction it yields the
\* agents the call may return
executeActionAlwaysMoving(w, npc) ==
  IF ~HasValue(npc.identity.current_action) THEN {npc} ELSE executeMove(npc)

executeAction(w, npc) ==
  IF ~HasValue(npc.identity.current_action) THEN {npc}
  ELSE LET action_type == Value(npc.identity.current_action) IN
       IF action_type \in {"Move", "Follow"} THEN executeMove(npc) ELSE {npc}

\* the events executeAllActions logs: one per agent that has a current action
RECURSIVE executionEvents(_, _)
executionEvents(w, i) ==
  IF i > Len(w.npcs) THEN <<>>
  ELSE (IF HasValue(w.npcs[i].identity.current_action)
        THEN <<SimulationEvent("ACTION_EXECUTION", None, Some(getId(w.npcs[i])))>>
        ELSE <<>>)
       \o executionEvents(w, i + 1)

\* the worlds executeAllActions may return
executeAllActions(w) ==
  {World(w.clock, updated_npcs, w.objects) :
     updated_npcs \in Choices([i \in 1..Len(w.npcs) |-> executeAction(w, w.npcs[i])])}

-----------------------------------------------------------------------------
(* NPC update *)

\* the agents updateNPC may return
updateNPC(npc, w, p, current_time) ==
  LET npc_with_drives == updateDrives(npc, p.drive_params, 1)
  IN UNION {selectNextAction(npc_with_memories, w,
                             ActionSelectionCriteria(npc_with_memories.drives,
                                                     p.familiarity_preference,
                                                     p.social_preference,
                                                     p.randomness)) :
              npc_with_memories \in
                formEpisodicMemories(npc_with_drives, current_time,
                                     p.significance_threshold, p.max_sequence_gap,
                                     p.min_sequence_length)}

\* the results of findSimilarEpisode during the updateNPC call that turned
\* npc into updated: one sequence of results per order std::sort may have
\* left the buffer in and that yields updated's episodic memory
updateNPCLookups(npc, p, current_time, updated) ==
  LET npc_with_drives == updateDrives(npc, p.drive_params, 1)
  IN {similarEpisodes(npc_with_drives,
                      identifyActionSequences(sorted, p.max_sequence_gap,
                                              p.min_sequence_length),
                      current_time, p.significance_threshold) :
        sorted \in
          {o \in SortedPerceptions(npc_with_drives.perception) :
             formEpisodicMemoriesSorted(npc_with_drives, o, current_time,
                                        p.significance_threshold, p.max_sequence_gap,
                                        p.min_sequence_length).episodic_memory
               = updated.episodic_memory}}

\* each agent acting as soon as it has chosen, so that later agents choose in
\* a world the earlier ones have already changed
RECURSIVE updateAndExecuteFrom(_, _, _)
updateAndExecuteFrom(w, p, i) ==
  IF i > Len(w.npcs) THEN {w}
  ELSE UNION {updateAndExecuteFrom(World(w.clock, [w.npcs EXCEPT ![i] = moved], w.objects),
                                   p, i + 1) :
                moved \in UNION {executeAction(w, chosen) :
                                   chosen \in updateNPC(w.npcs[i], w, p,
                                                        w.clock.current_tick)}}

updateAllNPCsInterleaved(w, p) == updateAndExecuteFrom(w, p, 1)

updateAllNPCs(w, p) ==
  LET current_time == w.clock.current_tick
  IN {World(w.clock, updated_npcs, w.objects) :
        updated_npcs \in
          Choices([i \in 1..Len(w.npcs) |-> updateNPC(w.npcs[i], w, p, current_time)])}

-----------------------------------------------------------------------------
(* Spatial index and perception sweep *)

PerceptionPair(npc, kind, entity, dist) ==
  [perceiver |-> npc, kind |-> kind, perceived |-> entity, distance |-> dist]

calculateDistance(pos1, pos2) == ISqrt(DistanceSquared(pos1, pos2))

\* distance <= max_distance, decided exactly on the squares
withinDistance(pos1, pos2, max_distance) ==
  DistanceSquared(pos1, pos2) <= max_distance * max_distance

getCellIndices(pos, cell_size) == <<TruncDiv(pos.x, cell_size), TruncDiv(pos.y, cell_size)>>

\* (int64(x_idx) << 32) | uint32(y_idx): the high and the low word of the key
getCellKey(x_idx, y_idx) == <<x_idx, y_idx>>

cellKeyOf(e, cell_size) ==
  LET idx == getCellIndices(getPosition(e), cell_size) IN getCellKey(idx[1], idx[2])

\* grid[cell_key].npcs and grid[cell_key].objects, in insertion order
RECURSIVE cellMembers(_, _, _, _)
cellMembers(entities, cell_key, cell_size, i) ==
  IF i > Len(entities) THEN <<>>
  ELSE (IF cellKeyOf(entities[i], cell_size) = cell_key THEN <<entities[i]>> ELSE <<>>)
       \o cellMembers(entities, cell_key, cell_size, i + 1)

RECURSIVE cellNPCPairs(_, _, _, _)
cellNPCPairs(npc, cell_npcs, max_distance, i) ==
  IF i > Len(cell_npcs) THEN <<>>
  ELSE LET other_npc == cell_npcs[i] IN
       (IF getId(npc) = getId(other_npc) THEN <<>>
        ELSE IF withinDistance(getPosition(npc), getPosition(other_npc), max_distance)
        THEN <<PerceptionPair(npc, "NPC", other_npc,
                              calculateDistance(getPosition(npc), getPosition(other_npc)))>>
        ELSE <<>>)
       \o cellNPCPairs(npc, cell_npcs, max_distance, i + 1)

RECURSIVE cellObjectPairs(_, _, _, _)
cellObjectPairs(npc, cell_objects, max_distance, i) ==
  IF i > Len(cell_objects) THEN <<>>
  ELSE LET object == cell_objects[i] IN
       (IF withinDistance(getPosition(npc), getPosition(object), max_distance)
        THEN <<PerceptionPair(npc, "Object", object,
                              calculateDistance(getPosition(npc), getPosition(object)))>>
        ELSE <<>>)
       \o cellObjectPairs(npc, cell_objects, max_distance, i + 1)

\* the 3x3 block of cells around the observer, in the order the loops visit them
\* the observer's own cell only
CellOffsetsOwnCellOnly == <<<<0, 0>>>>

CellOffsets ==
  <<<<-1, -1>>, <<-1, 0>>, <<-1, 1>>, <<0, -1>>, <<0, 0>>, <<0, 1>>,
    <<1, -1>>, <<1, 0>>, <<1, 1>>>>

RECURSIVE scanCells(_, _, _, _)
scanCells(w, npc, max_distance, k) ==
  IF k > Len(CellOffsets) THEN <<>>
  ELSE LET center == getCellIndices(getPosition(npc), max_distance)
           cell_key == getCellKey(center[1] + CellOffsets[k][1],
                                  center[2] + CellOffsets[k][2])
       IN cellNPCPairs(npc, cellMembers(w.npcs, cell_key, max_distance, 1),
                       max_distance, 1)
          \o cellObjectPairs(npc, cellMembers(w.objects, cell_key, max_distance, 1),
                             max_distance, 1)
          \o scanCells(w, npc, max_distance, k + 1)

RECURSIVE scanNPCs(_, _, _)
scanNPCs(w, max_distance, i) ==
  IF i > Len(w.npcs) THEN <<>>
  ELSE scanCells(w, w.npcs[i], max_distance, 1) \o scanNPCs(w, max_distance, i + 1)

calculatePerceptibleEntities(w, max_distance) == scanNPCs(w, max_distance, 1)

-----------------------------------------------------------------------------
(* Perception to memory *)

createObservationEntry(timestamp, observer, kind, observed) ==
  IF kind = "NPC"
  THEN MemoryEntry(timestamp, observer.identity, "Observe",
                   Some(observed.identity.entity), None)
  ELSE MemoryEntry(timestamp, observer.identity, "Observe", None, Some(observed))

createObservationMemory(perception, timestamp) ==
  createObservationEntry(timestamp, perception.perceiver, perception.kind,
                         perception.perceived)

\* appending without trimming to the newest entries
updatePerceptionBufferUntrimmed(buffer, new_entries, max_buffer_size) ==
  buffer \o new_entries

updatePerceptionBuffer(buffer, new_entries, max_buffer_size) ==
  LET updated_entries == buffer \o new_entries IN
  IF Len(updated_entries) > max_buffer_size
  THEN SubSeq(updated_entries, Len(updated_entries) - max_buffer_size + 1,
              Len(updated_entries))
  ELSE updated_entries

\* the new memories put in front of the entries the buffer already holds
updateNPCPerceptionsNewestFirst(npc, new_memories, max_buffer_size) ==
  NPC(npc.identity, npc.drives,
      updatePerceptionBuffer(new_memories, npc.perception, max_buffer_size),
      npc.episodic_memory, npc.observed_behaviors, npc.relationships)

updateNPCPerceptions(npc, new_memories, max_buffer_size) ==
  NPC(npc.identity, npc.drives,
      updatePerceptionBuffer(npc.perception, new_memories, max_buffer_size),
      npc.episodic_memory, npc.observed_behaviors, npc.relationships)

\* npc_memories[npc_id]: first the entries of all pairs from the i-th on,
\* whoever perceived; then the entries of the pairs whose perceiver has this id
npcMemoriesOfEveryPerceiver(pairs, npc_id, current_time, i) ==
  [k \in 1..(Len(pairs) - i + 1) |-> createObservationMemory(pairs[k + i - 1], current_time)]

RECURSIVE npcMemories(_, _, _, _)
npcMemories(pairs, npc_id, current_time, i) ==
  IF i > Len(pairs) THEN <<>>
  ELSE (IF getId(pairs[i].perceiver) = npc_id
        THEN <<createObservationMemory(pairs[i], current_time)>>
        ELSE <<>>)
       \o npcMemories(pairs, npc_id, current_time, i + 1)

\* processPerceptions, given the pairs of the sweep
\* only the agents that perceived something are carried into the new world
updateWorldPerceptionsOnlyPerceivers(w, pairs, max_buffer_size) ==
  LET current_time == w.clock.current_tick
      perceivers ==
        SelectSeq(w.npcs, LAMBDA npc : Len(npcMemories(pairs, getId(npc), current_time, 1)) > 0)
      updated_npcs ==
        [i \in 1..Len(perceivers) |->
           updateNPCPerceptions(perceivers[i],
                                npcMemories(pairs, getId(perceivers[i]), current_time, 1),
                                max_buffer_size)]
  IN World(w.clock, updated_npcs, w.objects)

updateWorldPerceptions(w, pairs, max_buffer_size) ==
  LET current_time == w.clock.current_tick
      updated_npcs ==
        [i \in 1..Len(w.npcs) |->
           LET memories == npcMemories(pairs, getId(w.npcs[i]), current_time, 1) IN
           IF Len(memories) > 0
           THEN updateNPCPerceptions(w.npcs[i], memories, max_buffer_size)
           ELSE w.npcs[i]]
  IN World(w.clock, updated_npcs, w.objects)

processPerceptions(w, range, max_buffer_size) ==
  updateWorldPerceptions(w, calculatePerceptibleEntities(w, range), max_buffer_size)

-----------------------------------------------------------------------------
(* Event log *)

\* a piece of text in the log file: a bracket or comma, or a dumped object
Punctuation(text) == [punctuation |-> text, object |-> None]

Dumped(data) == [punctuation |-> "", object |-> Some(data)]

\* the JSON object of an event: its type and the fields it carries
serializeEvent(event) ==
  [type |-> event.type]
    @@ (IF HasValue(event.tick) THEN [tick_number |-> Value(event.tick)] ELSE <<>>)
    @@ (IF HasValue(event.entity) THEN [entity_id |-> Value(event.entity)] ELSE <<>>)

\* write without the separating comma
writeWithoutSeparator(l, data) ==
  IF ~l.is_initialized THEN l
  ELSE [l EXCEPT !.file_stream = Append(l.file_stream, Dumped(data)), !.has_events = TRUE]

write(l, data) ==
  IF ~l.is_initialized THEN l
  ELSE [l EXCEPT !.file_stream =
                   (IF l.has_events THEN Append(l.file_stream, Punctuation(","))
                    ELSE l.file_stream) \o <<Dumped(data)>>,
                 !.has_events = TRUE]

\* the loggers initialize may leave: the file opened afresh and the array
\* begun, or, when the file cannot be opened, a logger that is not initialized
initialize(l) ==
  {[is_initialized |-> TRUE, has_events |-> FALSE, file_stream |-> <<Punctuation("[")>>],
   [is_initialized |-> FALSE, has_events |-> FALSE, file_stream |-> l.file_stream]}

logEvent(l, event) ==
  IF ~l.is_initialized THEN l ELSE write(l, serializeEvent(event))

shutdown(l) ==
  IF ~l.is_initialized THEN l
  ELSE [l EXCEPT !.file_stream = Append(l.file_stream, Punctuation("]")),
                 !.is_initialized = FALSE]

isInitialized(l) == l.is_initialized

-----------------------------------------------------------------------------
(* Tick orchestrator *)

\* the ENTITY_UPDATE events processTick logs for the world it returns
entityUpdateEvents(result) ==
  [i \in 1..Min(MaxLoggedEntities, Len(result.npcs)) |->
     SimulationEvent("ENTITY_UPDATE", None, Some(getId(result.npcs[i])))]
  \o [i \in 1..Min(MaxLoggedEntities, Len(result.objects)) |->
        SimulationEvent("ENTITY_UPDATE", None, Some(result.objects[i].entity.id))]

\* the events one call of processTick logs, in the order it logs them
tickEvents(w, w1, result) ==
  <<SimulationEvent("TICK_START", Some(w.clock.current_tick), None)>>
  \o executionEvents(w1, 1)
  \o <<SimulationEvent("TICK_END", Some(w.clock.current_tick), None)>>
  \o entityUpdateEvents(result)

\* The world processTick returns for the world the actions left.  First, the
\* clock advanced before the perceptions are recorded; then the order of
\* processTick itself.
tickResultClockFirst(w2, range) ==
  processPerceptions(World(advanceClock(w2.clock), w2.npcs, w2.objects), range, MAX_BUFFER)

tickResult(w2, range) ==
  LET world_with_perceptions == processPerceptions(w2, range, MAX_BUFFER)
  IN World(advanceClock(world_with_perceptions.clock),
           world_with_perceptions.npcs, world_with_perceptions.objects)

\* what processTick has at its end, given its input w, its locals w1 and w2
\* and the world swept it passed to processPerceptions
tickOutcome(w, w1, w2, swept, range) ==
  LET result == tickResult(swept, range)
  IN [world_with_actions |-> w1,
      world_after_actions |-> w2,
      perceptions |-> calculatePerceptibleEntities(swept, range),
      result |-> result,
      events |-> tickEvents(w, w1, result)]

\* The outcomes of processTick are its locals, the world it returns and the
\* events it logs.  First, processTick with the perception sweep made on the
\* world as it was before the actions ran; then processTick itself.
processTickSweepBeforeExecution(w, p, range) ==
  UNION {
    {tickOutcome(w, w1, w2, w1, range) : w2 \in executeAllActions(w1)} :
    w1 \in updateAllNPCs(w, p)}

processTick(w, p, range) ==
  UNION {
    {tickOutcome(w, w1, w2, w2, range) : w2 \in executeAllActions(w1)} :
    w1 \in updateAllNPCs(w, p)}

\* The outcomes of runTick are the world it returns, the calls of the
\* callback it makes and the outcome of its processTick.  First, runTick with
\* the callback handed the world the tick started from; then runTick itself.
runTickCallbackFirst(w, p, range, tick_number) ==
  {[next_world |-> r.result,
    callback |-> <<[world |-> w, tick_number |-> tick_number]>>,
    tick |-> r] :
     r \in processTick(w, p, range)}

runTick(w, p, range, tick_number) ==
  {[next_world |-> r.result,
    callback |-> <<[world |-> r.result, tick_number |-> tick_number]>>,
    tick |-> r] :
     r \in processTick(w, p, range)}

-----------------------------------------------------------------------------
(* Initial worlds *)

MakeNPC(id, x, y, drives, relationships) ==
  NPC(NPCIdentity(Entity(id, Position(x, y)), None, None, None),
      drives, <<>>, <<>>, <<>>, relationships)

MakeObject(id, x, y, category, creator) ==
  WorldObject(Entity(id, Position(x, y)), category, creator)

\* an agent that stays where it is: Gesture relieves its dominant Pride
Settler == <<Drive("Sustenance", 20000), Drive("Curiosity", 30000), Drive("Pride", 99950)>>

\* an agent led by Curiosity
Wanderer == <<Drive("Curiosity", 30000), Drive("Belonging", 10000)>>

HomeGround == <<Relationship("Location", LocationPoint(Position(0, 0), 4), 500)>>

CampNPCs ==
  <<MakeNPC("npc_1", 0, 0, Settler, <<>>), MakeNPC("npc_2", 3, 0, Settler, HomeGround),
    MakeNPC("npc_3", 0, 3, Settler, <<>>), MakeNPC("npc_4", 3, 3, Settler, <<>>)>>

CampObjects ==
  <<MakeObject("food_1", 1, 1, "Food", "npc_1"),
    MakeObject("shelter_1", 2, 2, "Structure", "npc_2"),
    MakeObject("food_2", 8, 0, "Food", "npc_1"),
    MakeObject("marker_1", 0, 8, "Marker", "npc_3")>>

PairNPCs == <<MakeNPC("npc_1", 0, 0, Wanderer, <<>>), MakeNPC("npc_2", 3, 0, Wanderer, <<>>)>>

ApartNPCs == <<MakeNPC("npc_1", 0, 0, Wanderer, <<>>), MakeNPC("npc_2", 12, 0, Settler, <<>>)>>

\* an agent led by Belonging, exactly SocialRadius away from its neighbour
Follower == <<Drive("Belonging", 50000)>>

ChaseNPCs == <<MakeNPC("npc_1", 0, 0, Follower, <<>>), MakeNPC("npc_2", 10, 0, Settler, <<>>)>>

\* two agents out of each other's reach, with nothing else around, the
\* second close to the far edge of the world
AloneNPCs == <<MakeNPC("npc_1", 0, 0, Settler, <<>>), MakeNPC("npc_2", 998, 10, Wanderer, <<>>)>>

ApartObjects == <<MakeObject("food_1", 4, 3, "Food", "npc_2")>>

DefaultDriveParameters == DriveParameters(200, 500, <<>>)

HungryDriveParameters == DriveParameters(200, 500, <<<<"Sustenance", 1500>>>>)

InitialClocks == {SimulationClock(0, g, l) : g \in {0, 1}, l \in {2, 3}}

\* the runs considered: an initial world, the update parameters, a radius
Scenarios ==
  {[world |-> World(c, CampNPCs, CampObjects),
    params |-> NPCUpdateParams(dp, 600, 700, 0, 300, gap, 2),
    range |-> 10] :
     c \in InitialClocks, dp \in {DefaultDriveParameters, HungryDriveParameters},
     gap \in {0, 3}}
  \cup
  {[world |-> World(SimulationClock(0, 1, 2), PairNPCs, <<>>),
    params |-> NPCUpdateParams(DefaultDriveParameters, q[1], q[2], q[3], 300, q[4], q[5]),
    range |-> 10] :
     q \in {<<600, 700, 0, 3, 2>>, <<0, 0, 0, 3, 2>>, <<600, 700, 100, 3, 2>>,
            <<600, 700, 0, 0, 1>>}}
  \cup
  {[world |-> World(SimulationClock(0, 1, 3), ApartNPCs, ApartObjects),
    params |-> NPCUpdateParams(DefaultDriveParameters, 600, 700, r, 300, 3, 2),
    range |-> 10] :
     r \in {0, 100}}
  \cup
  {[world |-> World(SimulationClock(0, 1, 3), ChaseNPCs, <<>>),
    params |-> NPCUpdateParams(DefaultDriveParameters, 600, 700, 0, 300, 3, 2),
    range |-> 10]}
  \cup
  {[world |-> World(SimulationClock(0, 1, 3), AloneNPCs, <<>>),
    params |-> NPCUpdateParams(HungryDriveParameters, 600, 700, 0, 300, 3, 2),
    range |-> 10]}

-----------------------------------------------------------------------------
(* The run *)

\* the state in which main calls runSimulation on scenario s: the logger
\* holds SIMULATION_START and nothing else has happened
StartOf(s) ==
  /\ world = s.world
  /\ params = s.params
  /\ perception_range = s.range
  /\ initial_world = s.world
  /\ tick_input = s.world
  /\ world_with_actions = s.world
  /\ world_after_actions = s.world
  /\ perceptions = None
  /\ similar_lookups = <<>>
  /\ events = <<SimulationEvent("SIMULATION_START", None, None)>>
  /\ callback_calls = <<>>
  /\ finished = FALSE
  /\ arguments = None
  /\ returned = None
  /\ logger = NewLogger

Init == \E s \in Scenarios : StartOf(s)

\* one round of runSimulationRecursive: a call of runTick on the world the
\* runner holds
Tick ==
  /\ ~finished
  /\ world.clock.current_tick < MaxTicks
  /\ \E r \in runTick(world, params, perception_range,
                      world.clock.current_tick - initial_world.clock.current_tick + 1) :
       /\ world' = r.next_world
       /\ tick_input' = world
       /\ world_with_actions' = r.tick.world_with_actions
       /\ world_after_actions' = r.tick.world_after_actions
       /\ perceptions' = Some(r.tick.perceptions)
       /\ similar_lookups' \in
            Choices([i \in 1..Len(world.npcs) |->
                       updateNPCLookups(world.npcs[i], params, world.clock.current_tick,
                                        r.tick.world_with_actions.npcs[i])])
       /\ events' = events \o r.tick.events
       /\ callback_calls' = callback_calls \o r.callback
  /\ UNCHANGED <<params, perception_range, initial_world, finished, arguments, returned,
                 logger>>

\* runSimulation has returned after its last tick and main logs SIMULATION_END
Finish ==
  /\ ~finished
  /\ world.clock.current_tick >= MaxTicks
  /\ finished' = TRUE
  /\ events' = events \o <<SimulationEvent("SIMULATION_END", None, None)>>
  /\ UNCHANGED <<world, params, perception_range, initial_world, tick_input,
                 world_with_actions, world_after_actions, perceptions, similar_lookups,
                 callback_calls, arguments, returned, logger>>

Next == Tick \/ Finish

Spec == Init /\ [][Next]_vars

-----------------------------------------------------------------------------
(* The perception sweep on its own: any small world, any radius *)

SweepCoordinates == {<<x, y>> : x \in {-3, -1, 0, 2, 3}, y \in {-2, 0, 3}}

SweepRanges == {2, 3}

SweepWorlds ==
  {World(SimulationClock(0, 1, 100),
         <<MakeNPC("npc_1", a[1], a[2], Wanderer, <<>>),
           MakeNPC("npc_2", b[1], b[2], Wanderer, <<>>)>>,
         <<MakeObject("food_1", c[1], c[2], "Food", "npc_1")>>) :
     a \in SweepCoordinates, b \in SweepCoordinates, c \in SweepCoordinates}

ThreeAgents ==
  World(SimulationClock(0, 1, 100),
        <<MakeNPC("npc_A", 0, 0, Wanderer, <<>>), MakeNPC("npc_B", 3, 0, Wanderer, <<>>),
          MakeNPC("npc_C", 100, 100, Wanderer, <<>>)>>,
        <<>>)

InitSweep ==
  /\ \/ world \in SweepWorlds /\ perception_range \in SweepRanges
     \/ world = ThreeAgents /\ perception_range = 10
  /\ params = NPCUpdateParams(DefaultDriveParameters, 600, 700, 0, 300, 3, 2)
  /\ initial_world = world
  /\ tick_input = world
  /\ world_with_actions = world
  /\ world_after_actions = world
  /\ perceptions = None
  /\ similar_lookups = <<>>
  /\ events = <<>>
  /\ callback_calls = <<>>
  /\ finished = FALSE
  /\ arguments = None
  /\ returned = None
  /\ logger = NewLogger

\* one call of calculatePerceptibleEntities on the world
Sweep ==
  /\ perceptions = None
  /\ perceptions' = Some(calculatePerceptibleEntities(world, perception_range))
  /\ world_after_actions' = world
  /\ UNCHANGED <<world, params, perception_range, initial_world, tick_input,
                 world_with_actions, similar_lookups, events, callback_calls, finished,
                 arguments, returned, logger>>

NextSweep == Sweep

SpecSweep == InitSweep /\ [][NextSweep]_vars

-----------------------------------------------------------------------------
(* Action execution on its own: one call of executeAllActions *)

\* displacements from the acting agent to its target: below, at and above
\* ArrivalDistance, below, at and above MoveSpeed
ExecuteDisplacements ==
  {<<0, 0>>, <<3, 4>>, <<0, 9>>, <<6, 8>>, <<0, 20>>, <<18, 24>>, <<30, 40>>,
   <<100, 0>>, <<-60, -80>>}

ExecuteStarts == {<<0, 0>>, <<100, 200>>}

ExecuteTargets == {"entity", "object", "none"}

SeenGesture(x, y) ==
  MemoryEntry(1, NPCIdentity(Entity("npc_2", Position(x, y)), Some("Gesture"), None, None),
              "Gesture", None, None)

\* an agent in the middle of a run: it has an action, a target, drives, a
\* perception and a stored episode
ActingNPC(start, d, action, target) ==
  LET goal == Entity("npc_2", Position(start[1] + d[1], start[2] + d[2]))
      food == MakeObject("food_1", start[1] + d[1], start[2] + d[2], "Food", "npc_2")
      seen == SeenGesture(start[1] + d[1], start[2] + d[2])
  IN NPC(NPCIdentity(Entity("npc_1", Position(start[1], start[2])), Some(action),
                     IF target = "entity" THEN Some(goal) ELSE None,
                     IF target = "object" THEN Some(food) ELSE None),
         Wanderer, <<seen>>,
         <<MemoryEpisode(1, 1, ActionSequence(<<"seq", 1, 1>>, <<ActionStep(seen, 0)>>),
                         <<Drive("Curiosity", -200)>>, 1)>>,
         <<>>, HomeGround)

ExecuteWorlds ==
  {World(SimulationClock(2, 1, 3),
         <<ActingNPC(start, d, action, target),
           NPC(NPCIdentity(Entity("npc_2", Position(start[1] + d[1], start[2] + d[2])),
                           other, None, None),
               Settler, <<>>, <<>>, <<>>, <<>>)>>,
         <<MakeObject("food_1", start[1] + d[1], start[2] + d[2], "Food", "npc_2")>>) :
     start \in ExecuteStarts, d \in ExecuteDisplacements, action \in ActionKinds,
     target \in ExecuteTargets, other \in {None, Some("Gesture")}}

InitExecute ==
  /\ world \in ExecuteWorlds
  /\ params = NPCUpdateParams(DefaultDriveParameters, 600, 700, 0, 300, 3, 2)
  /\ perception_range = 10
  /\ initial_world = world
  /\ tick_input = world
  /\ world_with_actions = world
  /\ world_after_actions = world
  /\ perceptions = None
  /\ similar_lookups = <<>>
  /\ events = <<>>
  /\ callback_calls = <<>>
  /\ finished = FALSE
  /\ arguments = None
  /\ returned = None
  /\ logger = NewLogger

\* one call of executeAllActions on the world, with a logger
Execute ==
  /\ events = <<>>
  /\ world_after_actions' \in executeAllActions(world)
  /\ events' = executionEvents(world, 1)
  /\ UNCHANGED <<world, params, perception_range, initial_world, tick_input,
                 world_with_actions, perceptions, similar_lookups, callback_calls,
                 finished, arguments, returned, logger>>

NextExecute == Execute

SpecExecute == InitExecute /\ [][NextExecute]_vars

-----------------------------------------------------------------------------
(* Functions called on their own *)

\* no simulation is running: what the variables of the run hold while a
\* function is called on its own
NoRun ==
  /\ world = World(SimulationClock(0, 1, 3), <<>>, <<>>)
  /\ params = NPCUpdateParams(DefaultDriveParameters, 600, 700, 0, 300, 3, 2)
  /\ perception_range = 10
  /\ initial_world = world
  /\ tick_input = world
  /\ world_with_actions = world
  /\ world_after_actions = world
  /\ perceptions = None
  /\ similar_lookups = <<>>
  /\ events = <<>>
  /\ callback_calls = <<>>
  /\ finished = FALSE

\* the arguments updateDrive is called with: levels from 0 to 100, rates,
\* factors and modifiers of either sign (the code checks none of them)
DriveCalls ==
  [drive : {Drive(k, i) : k \in {"Sustenance", "Curiosity"},
                          i \in {0, 50000, 99900, 100000}},
   params : {DriveParameters(g, f, m) :
               g \in {-200, 0, 200}, f \in {0, 500},
               m \in {<<>>, <<<<"Sustenance", 1500>>>>, <<<<"Sustenance", -1000>>>>,
                      <<<<"Curiosity", 0>>, <<"Sustenance", 2000>>>>}},
   ticks_elapsed : {0, 1, 10}]

InitDrive ==
  /\ NoRun
  /\ arguments \in {Some(a) : a \in DriveCalls}
  /\ returned = None
  /\ logger = NewLogger

\* one call of updateDrive
CallUpdateDrive ==
  /\ returned = None
  /\ returned' = Some(updateDrive(Value(arguments).drive, Value(arguments).params,
                                  Value(arguments).ticks_elapsed))
  /\ UNCHANGED <<world, params, perception_range, initial_world, tick_input,
                 world_with_actions, world_after_actions, perceptions, similar_lookups,
                 events, callback_calls, finished, arguments, logger>>

NextDrive == CallUpdateDrive

SpecDrive == InitDrive /\ [][NextDrive]_vars

\* an entry of the buffer of npc_1: npc_2 seen doing something at a time
SeenAt(timestamp, action) ==
  MemoryEntry(timestamp,
              NPCIdentity(Entity("npc_2", Position(3, 0)), Some(action), None, None),
              action, Some(Entity("npc_1", Position(0, 0))), None)

\* buffers by their timestamps: empty, a single entry, close entries, a
\* late straggler, two groups, entries of one tick, an unsorted buffer
BufferTimestamps ==
  {<<>>, <<100>>, <<100, 103>>, <<100, 103, 115>>, <<100, 103, 104>>,
   <<100, 103, 115, 116>>, <<100, 100, 100>>, <<115, 100, 103>>}

StoredEpisode(timestamps, repetition_count) ==
  createMemoryEpisode([k \in 1..Len(timestamps) |-> SeenAt(timestamps[k], "Observe")],
                      <<Drive("Curiosity", -312)>>,
                      <<"seq", timestamps[Len(timestamps)] + 1, Len(timestamps)>>,
                      repetition_count)

\* episodic memories: none, one episode of two steps, one of three, both
StoredMemories ==
  {<<>>, <<StoredEpisode(<<50, 52>>, 1)>>, <<StoredEpisode(<<50, 52, 53>>, 2)>>,
   <<StoredEpisode(<<50, 52, 53>>, 2), StoredEpisode(<<60, 61>>, 1)>>}

\* the arguments formEpisodicMemories is called with
FormCalls ==
  {[function |-> "formEpisodicMemories",
    npc |-> NPC(NPCIdentity(Entity("npc_1", Position(0, 0)), None, None, None),
                Wanderer,
                [k \in 1..Len(timestamps) |-> SeenAt(timestamps[k], action)],
                episodic_memory, <<>>, <<>>),
    current_time |-> 120,
    significance_threshold |-> threshold,
    max_sequence_gap |-> gap,
    min_sequence_length |-> min_length] :
     timestamps \in BufferTimestamps, action \in {"Observe", "Follow", "Gesture"},
     episodic_memory \in StoredMemories, threshold \in {0, 300, 2000},
     gap \in {5, 20}, min_length \in {1, 2}}

\* the arguments selectAction is called with: no option, one, or several
SelectCalls ==
  {[function |-> "selectAction",
    options |-> SubSeq(<<ActionOption("Move", None, None, <<Drive("Curiosity", -200)>>, FALSE),
                         ActionOption("Gesture", None, None, <<Drive("Pride", -300)>>, FALSE),
                         ActionOption("Build", None, None,
                                      <<Drive("Shelter", -300), Drive("Pride", -200)>>, FALSE)>>,
                       1, n),
    criteria |-> ActionSelectionCriteria(drives, 600, 700, randomness)] :
     n \in 0..3, drives \in {Wanderer, Settler}, randomness \in {0, 50, 100, 1000}}

InitForm ==
  /\ NoRun
  /\ arguments \in {Some(a) : a \in FormCalls \cup SelectCalls}
  /\ returned = None
  /\ logger = NewLogger

\* one call of formEpisodicMemories
CallFormEpisodicMemories ==
  /\ returned = None
  /\ Value(arguments).function = "formEpisodicMemories"
  /\ \E npc \in formEpisodicMemories(Value(arguments).npc, Value(arguments).current_time,
                                     Value(arguments).significance_threshold,
                                     Value(arguments).max_sequence_gap,
                                     Value(arguments).min_sequence_length) :
       returned' = Some(npc)
  /\ UNCHANGED <<world, params, perception_range, initial_world, tick_input,
                 world_with_actions, world_after_actions, perceptions, similar_lookups,
                 events, callback_calls, finished, arguments, logger>>

\* one call of selectAction: an option, or none
CallSelectAction ==
  /\ returned = None
  /\ Value(arguments).function = "selectAction"
  /\ LET selected == selectAction(Value(arguments).options, Value(arguments).criteria) IN
     \/ /\ selected = {}
        /\ returned' = Some(None)
     \/ \E i \in selected : returned' = Some(Some(Value(arguments).options[i]))
  /\ UNCHANGED <<world, params, perception_range, initial_world, tick_input,
                 world_with_actions, world_after_actions, perceptions, similar_lookups,
                 events, callback_calls, finished, arguments, logger>>

NextForm == CallFormEpisodicMemories \/ CallSelectAction

SpecForm == InitForm /\ [][NextForm]_vars

\* the k-th entry ever perceived by an agent: entries of one tick share a
\* timestamp, later ticks have later timestamps
PerceivedEntry(k) ==
  MemoryEntry(k \div 7,
              NPCIdentity(Entity("npc_2", Position(k, 0)), Some("Gesture"), None, None),
              "Observe", Some(Entity("npc_2", Position(k, 0))), None)

\* the arguments updatePerceptionBuffer is called with: a buffer of at most
\* MAX_BUFFER entries and newer entries, fewer or more than the buffer holds
BufferCalls ==
  {[buffer |-> [k \in 1..n |-> PerceivedEntry(k)],
    new_entries |-> [k \in 1..m |-> PerceivedEntry(n + k)],
    max_buffer_size |-> MAX_BUFFER] : n \in 0..MAX_BUFFER, m \in 0..(MAX_BUFFER + 2)}

InitBuffer ==
  /\ NoRun
  /\ arguments \in {Some(a) : a \in BufferCalls}
  /\ returned = None
  /\ logger = NewLogger

\* one call of updatePerceptionBuffer
CallUpdatePerceptionBuffer ==
  /\ returned = None
  /\ returned' = Some(updatePerceptionBuffer(Value(arguments).buffer,
                                             Value(arguments).new_entries,
                                             Value(arguments).max_buffer_size))
  /\ UNCHANGED <<world, params, perception_range, initial_world, tick_input,
                 world_with_actions, world_after_actions, perceptions, similar_lookups,
                 events, callback_calls, finished, arguments, logger>>

NextBuffer == CallUpdatePerceptionBuffer

SpecBuffer == InitBuffer /\ [][NextBuffer]_vars

\* a buffer whose entries are told apart by their actions
SeenInTurn(timestamps) ==
  [k \in 1..Len(timestamps) |->
     SeenAt(timestamps[k], <<"Observe", "Follow", "Gesture", "Rest">>[k])]

\* the arguments identifyActionSequences is called with
SequenceCalls ==
  [buffer : {SeenInTurn(timestamps) : timestamps \in BufferTimestamps},
   max_sequence_gap : {0, 3, 5, 12},
   min_sequence_length : {1, 2, 3}]

InitSequences ==
  /\ NoRun
  /\ arguments \in {Some(a) : a \in SequenceCalls}
  /\ returned = None
  /\ logger = NewLogger

\* one call of identifyActionSequences: the buffer sorted, then scanned
CallIdentifyActionSequences ==
  /\ returned = None
  /\ \E sorted \in SortedPerceptions(Value(arguments).buffer) :
       returned' = Some(identifyActionSequences(sorted, Value(arguments).max_sequence_gap,
                                                Value(arguments).min_sequence_length))
  /\ UNCHANGED <<world, params, perception_range, initial_world, tick_input,
                 world_with_actions, world_after_actions, perceptions, similar_lookups,
                 events, callback_calls, finished, arguments, logger>>

NextSequences == CallIdentifyActionSequences

SpecSequences == InitSequences /\ [][NextSequences]_vars

\* the world generateMemoryBasedActions is called with: two agents, one object
OptionWorld ==
  World(SimulationClock(5, 1, 3),
        <<MakeNPC("npc_1", 0, 0, Settler, <<>>), MakeNPC("npc_2", 3, 0, Settler, <<>>)>>,
        <<MakeObject("obj_1", 2, 2, "Food", None)>>)

\* what the first entry of a remembered sequence may aim at: nothing, an
\* agent of the world or one that is gone, an object of the world or one
\* that is gone
RememberedTargets ==
  {<<None, None>>,
   <<Some(Entity("npc_2", Position(3, 0))), None>>,
   <<Some(Entity("npc_9", Position(9, 9))), None>>,
   <<None, Some(MakeObject("obj_1", 2, 2, "Food", None))>>,
   <<None, Some(MakeObject("obj_9", 8, 8, "Food", None))>>}

\* an episode of two steps whose first entry has the target, the second none
RememberedEpisode(target, action, repetition_count) ==
  LET actor == NPCIdentity(Entity("npc_2", Position(3, 0)), Some(action), None, None) IN
  createMemoryEpisode(<<MemoryEntry(1, actor, action, target[1], target[2]),
                        MemoryEntry(2, actor, "Gesture", None, None)>>,
                      <<Drive("Curiosity", -312)>>, <<"seq", 3, 2>>, repetition_count)

RememberedEpisodes ==
  {RememberedEpisode(target, action, repetition_count) :
     target \in RememberedTargets, action \in {"Observe", "Take"},
     repetition_count \in 1..3}

\* the arguments generateMemoryBasedActions is called with: the agent npc_1
\* with no, one or two episodes, and the world
OptionCalls ==
  {[npc |-> NPC(NPCIdentity(Entity("npc_1", Position(0, 0)), None, None, None),
                Settler, <<>>, episodic_memory, <<>>, <<>>),
    world |-> OptionWorld] :
     episodic_memory \in {<<>>} \cup {<<e>> : e \in RememberedEpisodes}
                          \cup {<<e, f>> : e \in RememberedEpisodes,
                                           f \in {RememberedEpisode(t, "Observe", 2) :
                                                    t \in RememberedTargets}}}

InitOptions ==
  /\ NoRun
  /\ arguments \in {Some(a) : a \in OptionCalls}
  /\ returned = None
  /\ logger = NewLogger

CallGenerateMemoryBasedActions ==
  /\ returned = None
  /\ returned' = Some(generateMemoryBasedActions(Value(arguments).npc,
                                                 Value(arguments).world))
  /\ UNCHANGED <<world, params, perception_range, initial_world, tick_input,
                 world_with_actions, world_after_actions, perceptions, similar_lookups,
                 events, callback_calls, finished, arguments, logger>>

NextOptions == CallGenerateMemoryBasedActions

SpecOptions == InitOptions /\ [][NextOptions]_vars

-----------------------------------------------------------------------------
(* updateNPC called tick after tick on one agent *)

\* the agents the ticks start from, each alone in its world: drives anywhere
\* from 0 to 100, and one whose drives are all high
GrowingAgents ==
  {MakeNPC("npc_1", 500, 500, drives, <<>>) :
     drives \in {Settler,
                 <<Drive("Sustenance", 0), Drive("Pride", 50000)>>,
                 <<Drive("Shelter", 100000)>>}}

EagerAgent ==
  MakeNPC("npc_1", 500, 500, <<Drive("Sustenance", 90000), Drive("Pride", 99950)>>, <<>>)

\* growth parameters with a positive rate and positive modifiers: a fast
\* growth with modifiers, and factors that slow the growth of high drives down
GrowthParameters ==
  {DriveParameters(5000, 0, <<<<"Sustenance", 1500>>, <<"Pride", 500>>>>),
   DriveParameters(5000, -1000, <<>>),
   DriveParameters(5000, -2000, <<>>)}

\* the fast parameters with every agent, the parameters of main with the
\* agent whose drives are high
GrowthCalls ==
  [npc : GrowingAgents,
   params : {NPCUpdateParams(d, 600, 700, r, 300, 3, 2) :
               d \in GrowthParameters, r \in {0, 300}}]
  \cup
  [npc : {EagerAgent},
   params : {NPCUpdateParams(DefaultDriveParameters, 600, 700, r, 300, 3, 2) :
               r \in {0, 300}}]

InitGrowth ==
  /\ NoRun
  /\ arguments \in {Some(a) : a \in GrowthCalls}
  /\ returned = Some(Value(arguments).npc)
  /\ logger = NewLogger

\* the next tick's call of updateNPC for the agent, in a world that holds
\* this agent only
CallUpdateNPC ==
  /\ HasValue(returned)
  /\ \E updated \in updateNPC(Value(returned),
                              World(world.clock, <<Value(returned)>>, <<>>),
                              Value(arguments).params, world.clock.current_tick) :
       returned' = Some(updated)
  /\ UNCHANGED <<world, params, perception_range, initial_world, tick_input,
                 world_with_actions, world_after_actions, perceptions, similar_lookups,
                 events, callback_calls, finished, arguments, logger>>

NextGrowth == CallUpdateNPC

\* the simulation loop runs the next tick as long as ticks remain
SpecGrowth == InitGrowth /\ [][NextGrowth]_vars /\ WF_vars(CallUpdateNPC)

-----------------------------------------------------------------------------
(* runSimulation for a given number of ticks *)

\* most ticks a run is asked for
MaxRunTicks == 3

\* The outcome of one call of runSimulationRecursive: the world it returns
\* when no ticks remain, and otherwise the recursive call it makes after its
\* runTick.  First the recursion that stops with one tick still to run, then
\* runSimulationRecursive.
runSimulationRecursiveStoppingEarly(w, remaining_ticks, total_ticks, current_tick, p, range) ==
  IF remaining_ticks <= 1
  THEN {[returns |-> Some(w), calls |-> None, callback |-> <<>>]}
  ELSE {[returns |-> None,
         calls |-> Some([world |-> r.next_world, remaining_ticks |-> remaining_ticks - 1,
                         total_ticks |-> total_ticks, current_tick |-> current_tick + 1]),
         callback |-> r.callback] :
          r \in runTick(w, p, range, current_tick)}

runSimulationRecursive(w, remaining_ticks, total_ticks, current_tick, p, range) ==
  IF remaining_ticks = 0
  THEN {[returns |-> Some(w), calls |-> None, callback |-> <<>>]}
  ELSE {[returns |-> None,
         calls |-> Some([world |-> r.next_world, remaining_ticks |-> remaining_ticks - 1,
                         total_ticks |-> total_ticks, current_tick |-> current_tick + 1]),
         callback |-> r.callback] :
          r \in runTick(w, p, range, current_tick)}

\* the first call runSimulation makes
runSimulation(w, ticks) ==
  [world |-> w, remaining_ticks |-> ticks, total_ticks |-> ticks, current_tick |-> 1]

\* the worlds runSimulation is called on: one agent that wanders on a clock
\* that has not run, one that stays on a clock that has
RunWorlds ==
  {World(SimulationClock(0, 1, 3), <<MakeNPC("npc_1", 500, 500, Wanderer, <<>>)>>, <<>>),
   World(SimulationClock(5, 2, 3), <<MakeNPC("npc_1", 500, 500, Settler, <<>>)>>, <<>>)}

\* runSimulation has been called and has made its first call of
\* runSimulationRecursive
InitRun ==
  /\ world \in RunWorlds
  /\ params = NPCUpdateParams(DefaultDriveParameters, 600, 700, 300, 300, 3, 2)
  /\ perception_range = 10
  /\ initial_world = world
  /\ tick_input = world
  /\ world_with_actions = world
  /\ world_after_actions = world
  /\ perceptions = None
  /\ similar_lookups = <<>>
  /\ events = <<>>
  /\ callback_calls = <<>>
  /\ finished = FALSE
  /\ arguments \in {Some(runSimulation(world, ticks)) : ticks \in 0..MaxRunTicks}
  /\ returned = None
  /\ logger = NewLogger

\* the outcomes of the call of runSimulationRecursive that is due
DueCall ==
  runSimulationRecursive(Value(arguments).world, Value(arguments).remaining_ticks,
                         Value(arguments).total_ticks, Value(arguments).current_tick,
                         params, perception_range)

\* a call of runSimulationRecursive with ticks remaining: one runTick, then
\* the next call
Recurse ==
  /\ returned = None
  /\ \E call \in DueCall :
       /\ HasValue(call.calls)
       /\ arguments' = call.calls
       /\ world' = Value(call.calls).world
       /\ tick_input' = world
       /\ callback_calls' = callback_calls \o call.callback
  /\ UNCHANGED <<params, perception_range, initial_world, world_with_actions,
                 world_after_actions, perceptions, similar_lookups, events, finished,
                 returned, logger>>

\* the call with no ticks remaining returns its world, and every call above
\* it returns the same
Return ==
  /\ returned = None
  /\ \E call \in DueCall :
       /\ HasValue(call.returns)
       /\ returned' = call.returns
       /\ finished' = TRUE
  /\ UNCHANGED <<world, params, perception_range, initial_world, tick_input,
                 world_with_actions, world_after_actions, perceptions, similar_lookups,
                 events, callback_calls, arguments, logger>>

NextRun == Recurse \/ Return

\* a call that has been made runs
SpecRun == InitRun /\ [][NextRun]_vars /\ WF_vars(NextRun)

-----------------------------------------------------------------------------
(* The logger on its own *)

\* most events logged between one initialize and the next shutdown
MaxLogged == 4

\* the events handed to logEvent
LoggedEvents ==
  {SimulationEvent("TICK_START", Some(1), None),
   SimulationEvent("ACTION_EXECUTION", None, Some("npc_1")),
   SimulationEvent("TICK_END", Some(1), None)}

\* a logger just constructed; events holds the events handed to logEvent
\* while the logger was initialized, since the last initialize that succeeded
InitLogger ==
  /\ NoRun
  /\ arguments = None
  /\ returned = None
  /\ logger = NewLogger

\* initialize called on a logger that is not initialized
Initialize ==
  /\ ~isInitialized(logger)
  /\ \E l \in initialize(logger) :
       /\ logger' = l
       /\ events' = IF isInitialized(l) THEN <<>> ELSE events
  /\ UNCHANGED <<world, params, perception_range, initial_world, tick_input,
                 world_with_actions, world_after_actions, perceptions, similar_lookups,
                 callback_calls, finished, arguments, returned>>

\* logEvent called, whether the logger is initialized or not
LogEvent ==
  /\ Len(events) < MaxLogged
  /\ \E event \in LoggedEvents :
       /\ logger' = logEvent(logger, event)
       /\ events' = IF isInitialized(logger) THEN Append(events, event) ELSE events
  /\ UNCHANGED <<world, params, perception_range, initial_world, tick_input,
                 world_with_actions, world_after_actions, perceptions, similar_lookups,
                 callback_calls, finished, arguments, returned>>

\* shutdown called, whether the logger is initialized or not
Shutdown ==
  /\ logger' = shutdown(logger)
  /\ UNCHANGED <<world, params, perception_range, initial_world, tick_input,
                 world_with_actions, world_after_actions, perceptions, similar_lookups,
                 events, callback_calls, finished, arguments, returned>>

NextLogger == Initialize \/ LogEvent \/ Shutdown

SpecLogger == InitLogger /\ [][NextLogger]_vars

-----------------------------------------------------------------------------
(* Properties *)

TickHasRun == world.clock.current_tick > initial_world.clock.current_tick

NPCIndices == 1..Len(world.npcs)

CountKind(drives, kind) == Cardinality({k \in 1..Len(drives) : drives[k].type = kind})

\* C1: after every tick each agent carries exactly one drive of each kind it
\* had in the initial world, none added, dropped or duplicated, and every
\* drive intensity lies in [0, 100].
C1_DrivesKeptAndBounded ==
  /\ Len(world.npcs) = Len(initial_world.npcs)
  /\ \A i \in NPCIndices :
       /\ \A kind \in DriveKinds :
            CountKind(world.npcs[i].drives, kind)
              = CountKind(initial_world.npcs[i].drives, kind)
       /\ \A k \in 1..Len(world.npcs[i].drives) :
            /\ world.npcs[i].drives[k].intensity >= 0
            /\ world.npcs[i].drives[k].intensity <= MaxIntensity

\* a tick in which the growth of a drive was cut off at 100
C1_Witness ==
  /\ TickHasRun
  /\ \E i \in NPCIndices : \E k \in 1..Len(world.npcs[i].drives) :
       /\ world.npcs[i].drives[k].intensity = MaxIntensity
       /\ tick_input.npcs[i].drives[k].intensity < MaxIntensity
       /\ world.npcs[i].drives[k].type = tick_input.npcs[i].drives[k].type

\* the pairs of the last sweep in which agent i is the perceiver
PairsOf(i) ==
  {k \in 1..Len(Value(perceptions)) :
     getId(Value(perceptions)[k].perceiver) = getId(world.npcs[i])}

\* C2: after every tick no agent's perception buffer holds more than
\* MAX_BUFFER = 20 entries, however many agents and objects were in range.
C2_BufferBounded ==
  \A i \in NPCIndices : Len(world.npcs[i].perception) <= MAX_BUFFER

\* a tick whose observations did not fit into the buffer
C2_Witness ==
  /\ TickHasRun
  /\ \E i \in NPCIndices :
       /\ Len(tick_input.npcs[i].perception) + Cardinality(PairsOf(i)) > MAX_BUFFER
       /\ Len(world.npcs[i].perception) = MAX_BUFFER

\* C3: in every world reachable by ticking,
\* current_generation = floor(current_tick / ticks_per_generation) + initial_gen.
C3_GenerationFormula ==
  world.clock.current_generation
    = (world.clock.current_tick \div world.clock.ticks_per_generation)
      + initial_world.clock.current_generation

\* a world past a generation boundary
C3_Witness ==
  /\ world.clock.current_tick > world.clock.ticks_per_generation
  /\ world.clock.current_generation > initial_world.clock.current_generation

\* C4: across ticks current_generation never decreases, and a tick increases
\* it, by exactly 1, iff the tick number it advances to is a positive multiple
\* of ticks_per_generation.
C4_GenerationMonotonic ==
  [][world'.clock.current_tick # world.clock.current_tick =>
       /\ world'.clock.current_generation >= world.clock.current_generation
       /\ world'.clock.current_generation =
            world.clock.current_generation
            + (IF /\ world'.clock.current_tick > 0
                  /\ world'.clock.current_tick % world.clock.ticks_per_generation = 0
               THEN 1 ELSE 0)]_vars

\* the last tick entered a new generation
C4_Witness ==
  /\ TickHasRun
  /\ world.clock.current_generation = tick_input.clock.current_generation + 1
  /\ world.clock.current_tick % world.clock.ticks_per_generation = 0

SweepHasRun == HasValue(perceptions)

\* C5: every agent's action selection in a tick reads the same start-of-tick
\* snapshot: what agent i leaves the update phase with is an outcome of
\* updateNPC applied to its own start-of-tick record and the start-of-tick
\* world, whatever the other agents chose, and so does not depend on the
\* order in which agents are processed.
C5_SelectionFromSnapshot ==
  TickHasRun =>
    /\ Len(world_with_actions.npcs) = Len(tick_input.npcs)
    /\ \A i \in 1..Len(tick_input.npcs) :
         world_with_actions.npcs[i]
           \in updateNPC(tick_input.npcs[i], tick_input, params,
                         tick_input.clock.current_tick)

\* a tick in which an agent chose another agent as its target while that
\* other agent chose to move, and moved
C5_Witness ==
  /\ TickHasRun
  /\ \E i, j \in 1..Len(tick_input.npcs) :
       /\ i # j
       /\ world_with_actions.npcs[i].identity.target_entity
            = Some(tick_input.npcs[j].identity.entity)
       /\ world_with_actions.npcs[j].identity.current_action = Some("Move")
       /\ getPosition(world_after_actions.npcs[j]) # getPosition(tick_input.npcs[j])

\* <<perceiver id, kind, perceived id>> of every pair within dist of each
\* other in w, found by comparing every agent with every agent and object
AllPairs(w, dist) ==
  {<<getId(w.npcs[i]), "NPC", getId(w.npcs[j])>> :
     <<i, j>> \in {q \in (1..Len(w.npcs)) \X (1..Len(w.npcs)) :
                     /\ q[1] # q[2]
                     /\ DistanceSquared(getPosition(w.npcs[q[1]]),
                                        getPosition(w.npcs[q[2]])) <= dist * dist}}
  \cup
  {<<getId(w.npcs[i]), "Object", w.objects[j].entity.id>> :
     <<i, j>> \in {q \in (1..Len(w.npcs)) \X (1..Len(w.objects)) :
                     DistanceSquared(getPosition(w.npcs[q[1]]),
                                     w.objects[q[2]].entity.position) <= dist * dist}}

PairKey(pair) ==
  <<getId(pair.perceiver), pair.kind,
    IF pair.kind = "NPC" THEN getId(pair.perceived) ELSE pair.perceived.entity.id>>

ReportedPairs == {PairKey(Value(perceptions)[k]) : k \in 1..Len(Value(perceptions))}

\* the entries the last tick appended to agent i's buffer
NewEntries(i) ==
  LET buffer == world.npcs[i].perception
      count == Min(Cardinality(PairsOf(i)), MAX_BUFFER)
  IN SubSeq(buffer, Len(buffer) - count + 1, Len(buffer))

\* C6: in every tick the perception sweep runs after action execution and
\* before the clock advance: what an agent perceives is decided by, and
\* recorded with, the positions after that tick's moves, not the positions
\* at the start of the tick, and is stamped with the tick number before the
\* advance.
C6_SweepAfterExecution ==
  TickHasRun =>
    /\ SweepHasRun
    /\ ReportedPairs = AllPairs(world_after_actions, perception_range)
    /\ \A k \in 1..Len(Value(perceptions)) :
         \E i \in 1..Len(world_after_actions.npcs) :
           Value(perceptions)[k].perceiver = world_after_actions.npcs[i]
    /\ world.clock.current_tick = world_after_actions.clock.current_tick + 1
    /\ \A i \in NPCIndices :
         /\ getPosition(world.npcs[i]) = getPosition(world_after_actions.npcs[i])
         /\ \A k \in 1..Len(NewEntries(i)) :
              /\ NewEntries(i)[k].timestamp = world_after_actions.clock.current_tick
              /\ NewEntries(i)[k].actor.entity.position
                   = getPosition(world_after_actions.npcs[i])

\* a tick whose moves changed who perceives whom
C6_Witness ==
  /\ TickHasRun
  /\ SweepHasRun
  /\ AllPairs(tick_input, perception_range)
       # AllPairs(world_after_actions, perception_range)
  /\ \E i \in NPCIndices : Len(NewEntries(i)) > 0

\* C7: no agent or object is created or destroyed by ticking: every world
\* reachable by ticking has the same agent ids in the same order and the
\* same object sequence as the initial world.
C7_PopulationFixed ==
  /\ Len(world.npcs) = Len(initial_world.npcs)
  /\ \A i \in 1..Len(initial_world.npcs) :
       i <= Len(world.npcs) => getId(world.npcs[i]) = getId(initial_world.npcs[i])
  /\ world.objects = initial_world.objects

\* a tick in which some agent perceived nothing and another agent moved
C7_Witness ==
  /\ TickHasRun
  /\ SweepHasRun
  /\ \E i \in NPCIndices : Cardinality(PairsOf(i)) = 0
  /\ \E i \in NPCIndices :
       i <= Len(tick_input.npcs)
         /\ getPosition(world.npcs[i]) # getPosition(tick_input.npcs[i])

Positions(seq) == 1..Len(seq)

\* C8: the spatially indexed perception sweep reports exactly the pairs an
\* exhaustive all-pairs comparison reports: every ordered (agent, other agent)
\* and (agent, object) pair within the perception radius, inclusive, each
\* exactly once, and never an agent paired with itself.
C8_SweepIsExhaustive ==
  SweepHasRun =>
    /\ ReportedPairs = AllPairs(world_after_actions, perception_range)
    /\ \A k, l \in Positions(Value(perceptions)) :
         PairKey(Value(perceptions)[k]) = PairKey(Value(perceptions)[l]) => k = l
    /\ \A k \in Positions(Value(perceptions)) :
         Value(perceptions)[k].kind = "NPC" =>
           getId(Value(perceptions)[k].perceiver) # getId(Value(perceptions)[k].perceived)

\* a sweep that reported a pair whose members lie in different grid cells,
\* in a world that also holds an agent or object out of range
C8_Witness ==
  /\ SweepHasRun
  /\ \E k \in Positions(Value(perceptions)) :
       LET pair == Value(perceptions)[k]
           other == IF pair.kind = "NPC" THEN getPosition(pair.perceived)
                    ELSE pair.perceived.entity.position
       IN getCellIndices(getPosition(pair.perceiver), perception_range)
            # getCellIndices(other, perception_range)
  /\ Len(Value(perceptions))
       < Len(world_after_actions.npcs)
         * (Len(world_after_actions.npcs) - 1 + Len(world_after_actions.objects))

Episodes(i) == world.npcs[i].episodic_memory

\* C9: every episode in any agent's episodic memory has start time <= end
\* time and a repetition count >= 1.
C9_EpisodesWellFormed ==
  \A i \in NPCIndices : \A k \in Positions(Episodes(i)) :
    /\ Episodes(i)[k].start_time <= Episodes(i)[k].end_time
    /\ Episodes(i)[k].repetition_count >= 1

\* an agent remembering an episode that spans several ticks and an episode
\* counted more than once
C9_Witness ==
  \E i \in NPCIndices :
    /\ \E k \in Positions(Episodes(i)) : Episodes(i)[k].start_time < Episodes(i)[k].end_time
    /\ \E k \in Positions(Episodes(i)) : Episodes(i)[k].repetition_count >= 2

StepsOf(episode) == episode.action_sequence.steps

\* the action sequences agent i holds: those of its episodes and its
\* witnessed sequences
SequencesOf(i) ==
  [k \in Positions(Episodes(i)) |-> Episodes(i)[k].action_sequence]
    \o [k \in Positions(world.npcs[i].observed_behaviors) |->
          world.npcs[i].observed_behaviors[k].sequence]

\* C10: every action sequence held after a tick is non-empty, its first
\* step has delay 0, and its steps' timestamps are non-decreasing along the
\* sequence (every later delay is the non-negative difference of
\* consecutive timestamps).
C10_SequencesWellFormed ==
  \A i \in NPCIndices : \A k \in Positions(SequencesOf(i)) :
    LET steps == SequencesOf(i)[k].steps IN
    /\ Len(steps) >= 1
    /\ steps[1].delay_after_previous = 0
    /\ \A n \in 2..Len(steps) :
         /\ steps[n - 1].memory.timestamp <= steps[n].memory.timestamp
         /\ steps[n].delay_after_previous
              = steps[n].memory.timestamp - steps[n - 1].memory.timestamp

\* a stored sequence with a step that follows its predecessor after a delay
C10_Witness ==
  \E i \in NPCIndices : \E k \in Positions(Episodes(i)) :
    \E n \in 2..Len(StepsOf(Episodes(i)[k])) :
      StepsOf(Episodes(i)[k])[n].delay_after_previous > 0

\* C11: every episode in any agent's episodic memory, newly created or a
\* replacement of a similar one, has start_time equal to the timestamp of
\* the first step of its action sequence and end_time equal to the
\* timestamp of the last step.
C11_EpisodeTimesMatchSteps ==
  \A i \in NPCIndices : \A k \in Positions(Episodes(i)) :
    LET steps == StepsOf(Episodes(i)[k]) IN
    /\ Len(steps) >= 1
    /\ Episodes(i)[k].start_time = steps[1].memory.timestamp
    /\ Episodes(i)[k].end_time = steps[Len(steps)].memory.timestamp

\* an agent holding a new episode of several steps and a replacement of it
C11_Witness ==
  \E i \in NPCIndices : \E k, l \in Positions(Episodes(i)) :
    /\ k < l
    /\ Episodes(i)[k].repetition_count = 1
    /\ Len(StepsOf(Episodes(i)[k])) >= 2
    /\ Episodes(i)[k].start_time < Episodes(i)[k].end_time
    /\ Episodes(i)[l].repetition_count = 2
    /\ Episodes(i)[l].action_sequence = Episodes(i)[k].action_sequence

\* C12: the lookup of a similar episode never constructs a sentinel record:
\* no call of findSimilarEpisode yields an episode with repetition_count 0 or
\* a sequence with the reserved id "__dummy__".
C12_NoSentinelRecord ==
  \A i \in 1..Len(similar_lookups) : \A k \in Positions(similar_lookups[i]) :
    /\ similar_lookups[i][k].repetition_count # 0
    /\ similar_lookups[i][k].action_sequence.id # <<"__dummy__">>

\* the agent selectNextAction was called on for agent i in the last tick:
\* its record after drive growth and episode formation, before the choice
BeforeSelection(i) ==
  [world_with_actions.npcs[i] EXCEPT !.identity = tick_input.npcs[i].identity]

OptionsOf(i) ==
  generatePrimitiveActions(BeforeSelection(i), tick_input)
    \o generateMemoryBasedActions(BeforeSelection(i), tick_input)

CriteriaOf(i) ==
  ActionSelectionCriteria(BeforeSelection(i).drives, params.familiarity_preference,
                          params.social_preference, params.randomness)

\* the first generated among the options of maximal score
FirstMaximal(options, criteria) ==
  CHOOSE k \in Positions(options) :
    /\ \A j \in Positions(options) :
         totalScore(options[j], criteria) <= totalScore(options[k], criteria)
    /\ \A j \in 1..(k - 1) :
         totalScore(options[j], criteria) < totalScore(options[k], criteria)

\* C13: with familiarity_preference = social_preference = randomness = 0
\* every agent gets, among its options of maximal score, the one generated
\* first (primitives in generation order, then memory-derived options).
C13_FirstGeneratedWins ==
  (/\ TickHasRun
   /\ params.familiarity_preference = 0
   /\ params.social_preference = 0
   /\ params.randomness = 0)
  => \A i \in NPCIndices :
       world_with_actions.npcs[i].identity
         = updateIdentityWithAction(BeforeSelection(i).identity,
                                    OptionsOf(i)[FirstMaximal(OptionsOf(i), CriteriaOf(i))])

\* C14: a tick is a function of its input (world, parameters, perception
\* range): the same input never yields two different next worlds.
C14_TickIsAFunction ==
  \A r1, r2 \in processTick(world, params, perception_range) : r1.result = r2.result

\* the agents selectNextAction may have been given for agent i in the last
\* tick: the input agent after drive growth and episode formation
SelectionInputs(i) ==
  formEpisodicMemories(updateDrives(tick_input.npcs[i], params.drive_params, 1),
                       tick_input.clock.current_tick, params.significance_threshold,
                       params.max_sequence_gap, params.min_sequence_length)

\* C15: the agent selection returns has the drives, perception buffer,
\* episodic memory, observed behaviours, relationships and entity of the
\* agent selection was given; only current_action and the target may differ.
C15_SelectionChangesOnlyIntent ==
  TickHasRun =>
    \A i \in NPCIndices :
      \E given \in SelectionInputs(i) :
        LET chosen == world_with_actions.npcs[i] IN
        /\ chosen.drives = given.drives
        /\ chosen.perception = given.perception
        /\ chosen.episodic_memory = given.episodic_memory
        /\ chosen.observed_behaviors = given.observed_behaviors
        /\ chosen.relationships = given.relationships
        /\ chosen.identity.entity = given.identity.entity

\* selection has replaced the intent of an agent that has a filled buffer
\* and stored episodes
C15_Witness ==
  /\ TickHasRun
  /\ \E i \in NPCIndices :
       /\ world_with_actions.npcs[i].identity # tick_input.npcs[i].identity
       /\ world_with_actions.npcs[i].perception # <<>>
       /\ world_with_actions.npcs[i].episodic_memory # <<>>

\* every AgentIdentity a world holds: the agents' own and the actors
\* recorded in perception buffers and in the steps of stored episodes
IdentitiesOf(w) ==
  {w.npcs[i].identity : i \in 1..Len(w.npcs)}
  \cup UNION {{w.npcs[i].perception[k].actor : k \in Positions(w.npcs[i].perception)} :
                i \in 1..Len(w.npcs)}
  \cup UNION {UNION {{StepsOf(e)[k].memory.actor : k \in Positions(StepsOf(e))} :
                       e \in {w.npcs[i].episodic_memory[m] :
                                m \in Positions(w.npcs[i].episodic_memory)}} :
                i \in 1..Len(w.npcs)}

\* C16: every AgentIdentity has at most one of target_entity and
\* target_object set: after selection, after movement and at the end of
\* the tick.
C16_AtMostOneTarget ==
  \A identity \in IdentitiesOf(world_with_actions) \cup IdentitiesOf(world_after_actions)
                    \cup IdentitiesOf(world) :
    ~(HasValue(identity.target_entity) /\ HasValue(identity.target_object))

\* selection has given an agent another agent as target and the movement
\* that followed has rebuilt the identity at a new position
C16_Witness ==
  /\ TickHasRun
  /\ \E i \in NPCIndices :
       /\ ~HasValue(tick_input.npcs[i].identity.target_entity)
       /\ HasValue(world_with_actions.npcs[i].identity.target_entity)
       /\ HasValue(world_after_actions.npcs[i].identity.target_entity)
       /\ world_after_actions.npcs[i].identity.entity.position
            # world_with_actions.npcs[i].identity.entity.position

ExecuteHasRun == events # <<>>

\* the acting agent of an execution world before and after the call
Actor == world.npcs[1]

ActorAfter == world_after_actions.npcs[1]

ActorMoves == Value(Actor.identity.current_action) \in {"Move", "Follow"}

\* C17: Move or Follow with an entity target at displacement d leaves the
\* agent where it is when |d| < 10; otherwise the agent's step has length
\* min(30, |d|) and the direction of d, and the target is unchanged.  From
\* (0,0) toward (100,0) the agent ends at (30,0).
C17_TargetedMove ==
  (ExecuteHasRun /\ ActorMoves /\ HasValue(Actor.identity.target_entity)) =>
    LET from == Actor.identity.entity.position
        to == ActorAfter.identity.entity.position
        goal == Value(Actor.identity.target_entity).position
        dx == goal.x - from.x
        dy == goal.y - from.y
        mx == to.x - from.x
        my == to.y - from.y
    IN /\ dx * dx + dy * dy < 10 * 10 => to = from
       /\ dx * dx + dy * dy >= 10 * 10 =>
            /\ mx * mx + my * my = Min(30 * 30, dx * dx + dy * dy)
            /\ mx * dy = my * dx
            /\ mx * dx + my * dy > 0
       /\ ActorAfter.identity.target_entity = Actor.identity.target_entity
       /\ world_after_actions.npcs[2] = world.npcs[2]
       /\ (from = Position(0, 0) /\ goal = Position(100, 0)) => to = Position(30, 0)

\* the agent at (0,0) has moved toward its target at (100,0)
C17_Witness ==
  /\ ExecuteHasRun
  /\ ActorMoves
  /\ Actor.identity.entity.position = Position(0, 0)
  /\ Actor.identity.target_entity = Some(Entity("npc_2", Position(100, 0)))
  /\ ActorAfter.identity.entity.position = Position(30, 0)

\* C18: Observe, Give, Take, Rest, Build, Plant, Bury and Gesture return
\* the agent unchanged, and whatever the action, the call changes nothing
\* but the acting agent's position: its drives, memories, intent and id,
\* the other agents, the objects and the clock are as before.
C18_OnlyPositionChanges ==
  ExecuteHasRun =>
    /\ ~ActorMoves => ActorAfter = Actor
    /\ ActorAfter
         = [Actor EXCEPT !.identity.entity.position = ActorAfter.identity.entity.position]
    /\ world_after_actions = [world EXCEPT !.npcs[1] = ActorAfter]

\* in one call a Move has changed the acting agent's position and the other
\* agent's Gesture has been executed
C18_Witness ==
  /\ ExecuteHasRun
  /\ ActorMoves
  /\ ActorAfter.identity.entity.position # Actor.identity.entity.position
  /\ world.npcs[2].identity.current_action = Some("Gesture")
  /\ Len(events) = 2

EventTypes == [k \in Positions(events) |-> events[k].type]

\* C19: the stream begins with SIMULATION_START and, once the run is over,
\* ends with SIMULATION_END; in between every tick is TICK_START, then its
\* ACTION_EXECUTION events, then its ENTITY_UPDATE events, then TICK_END as
\* its last event.
C19_EventOrder ==
  /\ EventTypes[1] = "SIMULATION_START"
  /\ finished => EventTypes[Len(events)] = "SIMULATION_END"
  /\ ~finished => EventTypes[Len(events)] \in {"SIMULATION_START", "TICK_END"}
  /\ \A k \in 2..Len(events) :
       /\ EventTypes[k] # "SIMULATION_START"
       /\ EventTypes[k] = "TICK_START" =>
            EventTypes[k - 1] \in {"SIMULATION_START", "TICK_END"}
       /\ EventTypes[k] = "ACTION_EXECUTION" =>
            EventTypes[k - 1] \in {"TICK_START", "ACTION_EXECUTION"}
       /\ EventTypes[k] = "ENTITY_UPDATE" =>
            EventTypes[k - 1] \in {"TICK_START", "ACTION_EXECUTION", "ENTITY_UPDATE"}
       /\ EventTypes[k] = "TICK_END" =>
            EventTypes[k - 1] \in {"TICK_START", "ACTION_EXECUTION", "ENTITY_UPDATE"}
       /\ EventTypes[k] = "SIMULATION_END" =>
            /\ k = Len(events)
            /\ EventTypes[k - 1] \in {"SIMULATION_START", "TICK_END"}

TicksRun == world.clock.current_tick - initial_world.clock.current_tick

\* C20: the callback is invoked exactly once per tick, after the clock
\* advance, with the fully updated world the tick returns: actions executed,
\* perceptions appended, clock advanced.
C20_CallbackSeesWholeTicks ==
  /\ Len(callback_calls) = TicksRun
  /\ \A k \in Positions(callback_calls) :
       /\ callback_calls[k].tick_number = k
       /\ callback_calls[k].world.clock.current_tick
            = initial_world.clock.current_tick + k
  /\ TickHasRun =>
       LET seen == callback_calls[Len(callback_calls)].world IN
       /\ seen = world
       /\ seen.clock = advanceClock(tick_input.clock)
       /\ seen.npcs = updateWorldPerceptions(world_after_actions, Value(perceptions),
                                             MAX_BUFFER).npcs
       /\ seen.objects = tick_input.objects

\* the callback has been called for a second tick whose stages each changed
\* the world: the worlds after selection and after execution differ from each
\* other and from the world the callback got
C20_Witness ==
  /\ TicksRun = 2
  /\ Len(callback_calls) = 2
  /\ world_with_actions.npcs # tick_input.npcs
  /\ world_after_actions.npcs # world_with_actions.npcs
  /\ callback_calls[2].world.npcs # world_after_actions.npcs

HasReturned == HasValue(returned)

\* the growth modifier of a kind: that of the first entry for the kind,
\* 1.0 when there is none
ModifierOf(kind, modifiers) ==
  LET matching == {k \in Positions(modifiers) : modifiers[k][1] = kind}
  IN IF matching = {} THEN Unit
     ELSE modifiers[CHOOSE k \in matching : \A j \in matching : k <= j][2]

\* increase = base_growth_rate * growth_modifier(kind)
\*            * (1 + intensity/100 * intensity_factor) * ticks_elapsed
IncreaseOf(a) ==
  Mul(Mul(a.params.base_growth_rate, ModifierOf(a.drive.type, a.params.drive_growth_modifiers)),
      Unit + Mul(a.drive.intensity \div 100, a.params.intensity_factor))
    * a.ticks_elapsed

InReach(w, radius) ==
  \E i \in 1..Len(w.npcs) :
    \/ \E j \in 1..Len(w.npcs) :
         /\ j # i
         /\ DistanceSquared(w.npcs[i].identity.entity.position,
                            w.npcs[j].identity.entity.position) <= radius * radius
    \/ \E j \in 1..Len(w.objects) :
         DistanceSquared(w.npcs[i].identity.entity.position,
                         w.objects[j].entity.position) <= radius * radius

\* the ticks run so far had randomness 0, empty perception buffers and
\* nobody within reach
QuietRun ==
  /\ params.randomness = 0
  /\ ~InReach(initial_world, perception_range)
  /\ ~InReach(world, perception_range)
  /\ \A i \in NPCIndices : world.npcs[i].perception = <<>>

\* the growth formula applied n times, one tick each
RECURSIVE GrowthIterated(_, _, _)
GrowthIterated(drive, dparams, n) ==
  IF n = 0 THEN drive
  ELSE LET before == GrowthIterated(drive, dparams, n - 1)
       IN Drive(before.type,
                Min(100 * Unit,
                    before.intensity
                      + IncreaseOf([drive |-> before, params |-> dparams,
                                    ticks_elapsed |-> 1])))

\* C22: with randomness 0, empty buffers and nobody within reach, a tick
\* changes every drive by one application of the growth formula and by
\* nothing else; after n such ticks the drives are the n-fold iteration of
\* the formula on the initial drives, and no intensity has gone down.
C22_QuietTicksOnlyGrow ==
  (TickHasRun /\ QuietRun) =>
    \A i \in NPCIndices :
      /\ Len(world.npcs[i].drives) = Len(initial_world.npcs[i].drives)
      /\ \A k \in Positions(world.npcs[i].drives) :
           /\ world.npcs[i].drives[k]
                = GrowthIterated(tick_input.npcs[i].drives[k], params.drive_params, 1)
           /\ world.npcs[i].drives[k]
                = GrowthIterated(initial_world.npcs[i].drives[k], params.drive_params,
                                 TicksRun)
           /\ world.npcs[i].drives[k].intensity >= tick_input.npcs[i].drives[k].intensity

\* two quiet ticks have run, a drive has grown in both, and another has
\* reached 100
C22_Witness ==
  /\ TicksRun = 2
  /\ QuietRun
  /\ \E i \in NPCIndices : \E k \in Positions(world.npcs[i].drives) :
       /\ world.npcs[i].drives[k].intensity > tick_input.npcs[i].drives[k].intensity
       /\ tick_input.npcs[i].drives[k].intensity > initial_world.npcs[i].drives[k].intensity
  /\ \E i \in NPCIndices : \E k \in Positions(world.npcs[i].drives) :
       world.npcs[i].drives[k].intensity = 100 * Unit

\* the j-th entry of the existing entries followed by the new ones
Combined(a, j) ==
  IF j <= Len(a.buffer) THEN a.buffer[j] ELSE a.new_entries[j - Len(a.buffer)]

\* C23: updatePerceptionBuffer returns the existing entries followed by
\* the new ones in their order, cut down to the last 20 of them when there
\* are more: the oldest go first and the survivors keep their order.
C23_BufferKeepsNewest ==
  HasReturned =>
    LET a == Value(arguments)
        total == Len(a.buffer) + Len(a.new_entries)
        kept == Value(returned)
    IN /\ Len(kept) = Min(20, total)
       /\ \A k \in Positions(kept) : kept[k] = Combined(a, total - Len(kept) + k)

\* a buffer of 15 entries has taken 8 more and lost its 3 oldest
C23_Witness ==
  /\ HasReturned
  /\ Len(Value(arguments).buffer) = 15
  /\ Len(Value(arguments).new_entries) = 8
  /\ Len(Value(returned)) = 20
  /\ Value(returned)[1] = Value(arguments).buffer[4]
  /\ Value(returned)[20] = Value(arguments).new_entries[8]

\* the timestamps of the entries the last tick appended, over all observers
NewTimestamps ==
  UNION {{NewEntries(i)[k].timestamp : k \in Positions(NewEntries(i))} : i \in NPCIndices}

\* C24: the entries appended during one tick, whoever the observer, carry
\* one and the same timestamp: the current_tick the world had before that
\* tick's clock advance.
C24_OneTimestampPerTick ==
  TickHasRun =>
    /\ Cardinality(NewTimestamps) <= 1
    /\ NewTimestamps \subseteq {tick_input.clock.current_tick}
    /\ NewTimestamps \subseteq {world.clock.current_tick - 1}

\* in a tick after the first, two observers have both recorded something
C24_Witness ==
  /\ TicksRun >= 2
  /\ \E i, j \in NPCIndices :
       /\ i # j
       /\ Len(NewEntries(i)) > 0
       /\ Len(NewEntries(j)) > 0
  /\ NewTimestamps = {tick_input.clock.current_tick}

\* C25: after every tick the timestamps of each agent's perception buffer
\* are non-decreasing in buffer order.
C25_BufferTimestampsOrdered ==
  \A i \in NPCIndices :
    \A k \in 1..(Len(world.npcs[i].perception) - 1) :
      world.npcs[i].perception[k].timestamp <= world.npcs[i].perception[k + 1].timestamp

\* a full buffer that has lost its oldest entries and holds entries of
\* three different ticks
C25_Witness ==
  \E i \in NPCIndices :
    /\ Len(world.npcs[i].perception) = MAX_BUFFER
    /\ world.npcs[i].perception[1].timestamp > 0
    /\ Cardinality({world.npcs[i].perception[k].timestamp :
                      k \in Positions(world.npcs[i].perception)}) >= 3

FormHasReturned ==
  HasReturned /\ Value(arguments).function = "formEpisodicMemories"

SelectHasReturned ==
  HasReturned /\ Value(arguments).function = "selectAction"

\* the candidate sequences of a formEpisodicMemories call, over the orders
\* the sort may leave equal timestamps in
CandidatesOf(a) ==
  UNION {{identifyActionSequences(sorted, a.max_sequence_gap, a.min_sequence_length)[k] :
            k \in Positions(identifyActionSequences(sorted, a.max_sequence_gap,
                                                    a.min_sequence_length))} :
           sorted \in SortedPerceptions(a.npc.perception)}

SignificantCandidatesOf(a) ==
  {sequence \in CandidatesOf(a) :
     hasEmotionalSignificance(<<evaluateSequenceImpact(a.npc, sequence, a.current_time)>>,
                              a.significance_threshold)}

\* C26: episode formation on an empty buffer, or with no significant
\* candidate, returns the agent record it was given; selection over an empty
\* option set yields no action (on which selectNextAction returns the agent
\* it was given).
C26_AbsentPathsReturnInput ==
  /\ (FormHasReturned /\ Value(arguments).npc.perception = <<>>) =>
       Value(returned) = Value(arguments).npc
  /\ (FormHasReturned /\ SignificantCandidatesOf(Value(arguments)) = {}) =>
       Value(returned) = Value(arguments).npc
  /\ (SelectHasReturned /\ Value(arguments).options = <<>>) => Value(returned) = None

\* formation has returned for a buffer that holds candidates none of which
\* is significant, and the agent has stored episodes that must survive
C26_Witness ==
  /\ FormHasReturned
  /\ CandidatesOf(Value(arguments)) # {}
  /\ SignificantCandidatesOf(Value(arguments)) = {}
  /\ Value(arguments).npc.episodic_memory # <<>>
  /\ Value(returned) = Value(arguments).npc

\* the objects of a text that is one JSON array of objects: "[", objects
\* separated by single commas, "]"; none when the text is anything else
ParseArray(text) ==
  LET n == Len(text)
      inner == SubSeq(text, 2, n - 1)
  IN IF /\ n >= 2
        /\ text[1] = Punctuation("[")
        /\ text[n] = Punctuation("]")
        /\ (Len(inner) = 0 \/ Len(inner) % 2 = 1)
        /\ \A k \in Positions(inner) :
             IF k % 2 = 1 THEN HasValue(inner[k].object)
             ELSE inner[k] = Punctuation(",")
     THEN Some([k \in 1..((Len(inner) + 1) \div 2) |-> Value(inner[2 * k - 1].object)])
     ELSE None

FileOpened == logger.file_stream # <<>>

FileClosed ==
  FileOpened /\ logger.file_stream[Len(logger.file_stream)] = Punctuation("]")

\* C27: initialize, k logEvent calls and shutdown leave a file that is one
\* JSON array holding exactly those k events in logging order; isInitialized
\* is true from initialize to shutdown and false before and after; logEvent
\* calls made while not initialized write nothing.
C27_LogIsOneArray ==
  /\ isInitialized(logger) <=> (FileOpened /\ ~FileClosed)
  /\ FileClosed =>
       ParseArray(logger.file_stream)
         = Some([k \in Positions(events) |-> serializeEvent(events[k])])
  /\ isInitialized(logger) =>
       ParseArray(Append(logger.file_stream, Punctuation("]")))
         = Some([k \in Positions(events) |-> serializeEvent(events[k])])

\* a file closed after three events, the logger no longer initialized
C27_Witness ==
  /\ FileClosed
  /\ ~isInitialized(logger)
  /\ Len(events) = 3
  /\ events[1] # events[2]
  /\ Len(logger.file_stream) = 7

\* the significant candidates of a call, in the order they are processed,
\* for one order the sort may leave the buffer in
SignificantIn(a, sorted) ==
  LET Significant(sequence) ==
        hasEmotionalSignificance(
          <<evaluateSequenceImpact(a.npc, sequence, a.current_time)>>,
          a.significance_threshold)
  IN SelectSeq(identifyActionSequences(sorted, a.max_sequence_gap, a.min_sequence_length),
               Significant)

\* the stored episodes with as many steps as the candidate
SameStepCount(episodes, sequence) ==
  {k \in Positions(episodes) : Len(StepsOf(episodes[k])) = Len(sequence)}

\* episode repeats a stored episode of the same step count, or, when there
\* is none, is a first episode built from the candidate
RepeatsOrIsNew(episode, episodes, sequence) ==
  IF SameStepCount(episodes, sequence) # {}
  THEN \E k \in SameStepCount(episodes, sequence) :
         episode = [episodes[k] EXCEPT !.repetition_count = @ + 1]
  ELSE /\ episode.repetition_count = 1
       /\ episode.start_time = sequence[1].timestamp
       /\ episode.end_time = sequence[Len(sequence)].timestamp
       /\ [k \in Positions(StepsOf(episode)) |-> StepsOf(episode)[k].memory] = sequence

\* C28: for each significant candidate, one episode is emitted: when a stored
\* episode has the same number of steps, a copy of it with repetition_count
\* + 1; when no stored episode has the same number of steps, a new episode
\* built from the candidate with repetition_count = 1.
C28_RepeatOnlySameStepCount ==
  FormHasReturned =>
    LET a == Value(arguments)
        stored == a.npc.episodic_memory
        memory == Value(returned).episodic_memory
    IN \E sorted \in SortedPerceptions(a.npc.perception) :
         LET candidates == SignificantIn(a, sorted) IN
         /\ Len(memory) = Len(stored) + Len(candidates)
         /\ \A j \in Positions(candidates) :
              RepeatsOrIsNew(memory[Len(stored) + j], stored, candidates[j])

\* the drive deltas of all entries of a sequence, entry after entry, each
\* entry's deltas as the impact evaluator produces them for the observer
AllDeltas(a, sequence) ==
  LET DeltasFrom[i \in 1..(Len(sequence) + 1)] ==
        IF i > Len(sequence) THEN <<>>
        ELSE evaluateImpact(ActionContext(a.npc, sequence[i], a.current_time))
               \o DeltasFrom[i + 1]
  IN DeltasFrom[1]

\* the mean of |intensity| over the deltas is at least the threshold; the
\* mean of no deltas is 0
MeanMagnitudeAtLeast(deltas, threshold) ==
  LET SumFrom[i \in 1..(Len(deltas) + 1)] ==
        IF i > Len(deltas) THEN 0 ELSE Abs(deltas[i].intensity) + SumFrom[i + 1]
  IN IF Len(deltas) = 0 THEN 0 >= threshold
     ELSE SumFrom[1] >= threshold * Len(deltas)

\* C29: a candidate sequence is treated as significant, and an episode is
\* emitted for it, if and only if the mean of |delta.intensity| over all
\* drive deltas of all of its entries is >= significance_threshold.
C29_SignificanceIsMeanOfAllDeltas ==
  FormHasReturned =>
    LET a == Value(arguments)
        stored == a.npc.episodic_memory
        memory == Value(returned).episodic_memory
    IN \E sorted \in SortedPerceptions(a.npc.perception) :
         LET Significant(sequence) ==
               MeanMagnitudeAtLeast(AllDeltas(a, sequence), a.significance_threshold)
             candidates ==
               SelectSeq(identifyActionSequences(sorted, a.max_sequence_gap,
                                                 a.min_sequence_length),
                         Significant)
         IN /\ Len(memory) = Len(stored) + Len(candidates)
            /\ stored = <<>> =>
                 \A j \in Positions(candidates) :
                   /\ memory[j].start_time = candidates[j][1].timestamp
                   /\ memory[j].end_time = candidates[j][Len(candidates[j])].timestamp

\* the orders of the entries of a buffer in which timestamps never decrease
OrdersByTimestamp(buffer) ==
  {[k \in Positions(buffer) |-> buffer[order[k]]] :
     order \in {f \in [Positions(buffer) -> Positions(buffer)] :
                  /\ \A i, j \in Positions(buffer) : i # j => f[i] # f[j]
                  /\ \A i \in Positions(buffer) :
                       i > 1 => buffer[f[i - 1]].timestamp <= buffer[f[i]].timestamp}}

\* the positions of a sorted buffer at which a run starts
RunStarts(sorted, gap) ==
  {i \in Positions(sorted) :
     i = 1 \/ sorted[i].timestamp - sorted[i - 1].timestamp > gap}

\* the maximal run that starts at position i
RunFrom(sorted, gap, i) ==
  LET last == CHOOSE j \in i..Len(sorted) :
                /\ \A k \in (i + 1)..j : k \notin RunStarts(sorted, gap)
                /\ (j = Len(sorted) \/ (j + 1) \in RunStarts(sorted, gap))
  IN SubSeq(sorted, i, last)

TimestampsOf(sequence) == [k \in Positions(sequence) |-> sequence[k].timestamp]

\* C30: sequencing sorts the buffer by timestamp and splits it into maximal
\* runs whose consecutive timestamps differ by at most max_sequence_gap; the
\* candidates are exactly the runs, the trailing run included, of at least
\* min_sequence_length entries, in order; timestamps 100, 103, 115 with gap
\* 5 and minimum length 2 give the single candidate (100, 103).
C30_CandidatesAreLongMaximalRuns ==
  HasReturned =>
    LET a == Value(arguments)
        sequences == Value(returned)
    IN /\ \E sorted \in OrdersByTimestamp(a.buffer) :
            LET kept == {i \in RunStarts(sorted, a.max_sequence_gap) :
                           Len(RunFrom(sorted, a.max_sequence_gap, i))
                             >= a.min_sequence_length}
            IN /\ Len(sequences) = Cardinality(kept)
               /\ \A i \in kept :
                    sequences[Cardinality({x \in kept : x < i}) + 1]
                      = RunFrom(sorted, a.max_sequence_gap, i)
       /\ (/\ TimestampsOf(a.buffer) = <<100, 103, 115>>
           /\ a.max_sequence_gap = 5
           /\ a.min_sequence_length = 2)
            => [k \in Positions(sequences) |-> TimestampsOf(sequences[k])]
                 = <<<<100, 103>>>>

\* the unsorted buffer 115, 100, 103 has given the single candidate
\* (100, 103) and the straggler at 115 was rejected
C30_Witness ==
  /\ HasReturned
  /\ TimestampsOf(Value(arguments).buffer) = <<115, 100, 103>>
  /\ Value(arguments).max_sequence_gap = 5
  /\ Value(arguments).min_sequence_length = 2
  /\ Len(Value(returned)) = 1
  /\ TimestampsOf(Value(returned)[1]) = <<100, 103>>

IsPrefix(earlier, later) ==
  Len(earlier) <= Len(later) /\ SubSeq(later, 1, Len(earlier)) = earlier

\* C31: episode formation only appends: after a tick every agent's episodic
\* memory is its memory from before the tick, unchanged and in the same
\* order, followed by the episodes of this tick; so an agent's earlier
\* memory is always a prefix of its later one.
C31_EpisodesOnlyAppended ==
  /\ Len(world.npcs) = Len(tick_input.npcs)
  /\ \A i \in NPCIndices :
       /\ IsPrefix(tick_input.npcs[i].episodic_memory, Episodes(i))
       /\ IsPrefix(initial_world.npcs[i].episodic_memory, Episodes(i))
       /\ Episodes(i) = world_with_actions.npcs[i].episodic_memory

\* an agent that already held episodes before the last tick holds more now,
\* one of them a repetition
C31_Witness ==
  /\ TickHasRun
  /\ \E i \in NPCIndices :
       /\ tick_input.npcs[i].episodic_memory # <<>>
       /\ Len(Episodes(i)) > Len(tick_input.npcs[i].episodic_memory)
       /\ Episodes(i)[Len(Episodes(i))].repetition_count >= 2

\* the first entry of an episode
FirstEntry(episode) == StepsOf(episode)[1].memory

\* the ids of the agents and of the objects of a world
NPCIds(w) == {w.npcs[k].identity.entity.id : k \in Positions(w.npcs)}

ObjectIds(w) == {w.objects[k].entity.id : k \in Positions(w.objects)}

\* the episode is repeated and the target of its first entry, if it has
\* one, is in the world
Remembered(episode, w) ==
  /\ episode.repetition_count >= 2
  /\ HasValue(FirstEntry(episode).target_entity) =>
       Value(FirstEntry(episode).target_entity).id \in NPCIds(w)
  /\ HasValue(FirstEntry(episode).target_object) =>
       Value(FirstEntry(episode).target_object).entity.id \in ObjectIds(w)

\* C32: a memory-derived option is generated for an episode if and only if
\* its repetition_count is >= 2 and the target of its first step's entry,
\* if any, is in the current world by id; the option carries that entry's
\* action and target, the episode's drive_impacts and from_memory = true.
C32_MemoryOptions ==
  HasReturned =>
    LET a == Value(arguments)
        options == Value(returned)
        Kept(episode) == Remembered(episode, a.world)
        kept == SelectSeq(a.npc.episodic_memory, Kept)
    IN /\ Len(options) = Len(kept)
       /\ \A k \in Positions(kept) :
            /\ options[k].action = FirstEntry(kept[k]).action
            /\ options[k].target_entity = FirstEntry(kept[k]).target_entity
            /\ options[k].target_object = FirstEntry(kept[k]).target_object
            /\ options[k].expected_impacts = kept[k].drive_impacts
            /\ options[k].from_memory

\* of two repeated episodes, the one aiming at a vanished object gave no
\* option and the one aiming at a present agent gave one
C32_Witness ==
  /\ HasReturned
  /\ Len(Value(arguments).npc.episodic_memory) = 2
  /\ \A k \in 1..2 : Value(arguments).npc.episodic_memory[k].repetition_count >= 2
  /\ HasValue(FirstEntry(Value(arguments).npc.episodic_memory[1]).target_object)
  /\ ~Remembered(Value(arguments).npc.episodic_memory[1], Value(arguments).world)
  /\ Len(Value(returned)) = 1
  /\ Value(returned)[1].target_entity = Some(Entity("npc_2", Position(3, 0)))
  /\ Value(returned)[1].from_memory

\* the options of the call that score strictly higher than the option
ScoringHigher(a, option) ==
  {k \in Positions(a.options) :
     totalScore(a.options[k], a.criteria) > totalScore(option, a.criteria)}

\* N = min(len, 1 + floor(randomness * 10))
TopN(a) ==
  LET wanted == 1 + (a.criteria.randomness * 10) \div Unit
  IN IF Len(a.options) < wanted THEN Len(a.options) ELSE wanted

\* C33: with randomness > 0 and more than one option the chosen option is
\* one of the N = min(len, 1 + floor(randomness * 10)) highest-scoring
\* options; with randomness = 0 or a single option it has the maximum score.
C33_ChosenWithinTopN ==
  (SelectHasReturned /\ Value(arguments).options # <<>>) =>
    LET a == Value(arguments)
        chosen == Value(returned)
    IN /\ HasValue(chosen)
       /\ \E k \in Positions(a.options) : a.options[k] = Value(chosen)
       /\ IF a.criteria.randomness > 0 /\ Len(a.options) > 1
          THEN Cardinality(ScoringHigher(a, Value(chosen))) < TopN(a)
          ELSE ScoringHigher(a, Value(chosen)) = {}

\* with three options of three different scores and N = 2 the second best
\* was chosen
C33_Witness ==
  /\ SelectHasReturned
  /\ Len(Value(arguments).options) = 3
  /\ TopN(Value(arguments)) = 2
  /\ Cardinality(ScoringHigher(Value(arguments), Value(Value(returned)))) = 1
  /\ \E k \in 1..3 :
       Cardinality(ScoringHigher(Value(arguments), Value(arguments).options[k])) = 2

\* C34: in a tick in which an agent's perception buffer is the same as at
\* its previous episode-formation step, no entry having been appended since,
\* the agent's episodic memory is left unchanged: observations already
\* processed are not counted again as a further episode or repetition.
C34_ProcessedObservationsNotRecounted ==
  [][\A i \in NPCIndices :
       (TickHasRun /\ world.npcs[i].perception = tick_input.npcs[i].perception)
         => world'.npcs[i].episodic_memory = world.npcs[i].episodic_memory]_vars

\* the pairs the last sweep emitted with agent i as the observer, in order
PairsObservedBy(i) ==
  LET ByAgent(pair) == pair.perceiver = world_after_actions.npcs[i]
  IN SelectSeq(Value(perceptions), ByAgent)

\* the observation of a pair: stamped with the tick, made by the observer,
\* aimed at the agent or the object perceived
IsObservationOf(entry, pair) ==
  /\ entry.timestamp = tick_input.clock.current_tick
  /\ entry.action = "Observe"
  /\ entry.actor = pair.perceiver.identity
  /\ IF pair.kind = "NPC"
     THEN /\ entry.target_entity = Some(pair.perceived.identity.entity)
          /\ entry.target_object = None
     ELSE /\ entry.target_entity = None
          /\ entry.target_object = Some(pair.perceived)

\* C35: after the perception sweep the entries appended to an agent's
\* buffer are exactly the observations of the emitted pairs in which that
\* agent is the observer, one entry per pair and in the order of the pairs,
\* and no entry made for a different observer.
C35_EntriesAreOwnObservations ==
  TickHasRun =>
    \A i \in NPCIndices :
      LET before == world_after_actions.npcs[i].perception
          after == world.npcs[i].perception
          pairs == PairsObservedBy(i)
          total == Len(before) + Len(pairs)
          dropped == IF total > MAX_BUFFER THEN total - MAX_BUFFER ELSE 0
      IN /\ Len(after) = total - dropped
         /\ \A j \in Positions(after) :
              IF j + dropped <= Len(before)
              THEN after[j] = before[j + dropped]
              ELSE /\ IsObservationOf(after[j], pairs[j + dropped - Len(before)])
                   /\ after[j].actor.entity.id = getId(world.npcs[i])

\* a tick in which one agent observed an agent and an object, and another
\* agent observed something else
C35_Witness ==
  /\ TickHasRun
  /\ \E i, j \in NPCIndices :
       /\ i # j
       /\ \E k, l \in Positions(PairsObservedBy(i)) :
            /\ PairsObservedBy(i)[k].kind = "NPC"
            /\ PairsObservedBy(i)[l].kind # "NPC"
       /\ PairsObservedBy(j) # <<>>
       /\ PairsObservedBy(j) # PairsObservedBy(i)
       /\ Len(world.npcs[i].perception)
            = Len(world_after_actions.npcs[i].perception) + Len(PairsObservedBy(i))

InsideWorld(position) ==
  /\ 0 <= position.x /\ position.x <= 1000
  /\ 0 <= position.y /\ position.y <= 1000

\* C36: every agent and object of the initial world being inside
\* [0, 1000] x [0, 1000], every agent is inside [0, 1000] x [0, 1000] after
\* any number of ticks, after targeted as well as untargeted moves.
C36_AgentsStayInsideWorld ==
  (/\ \A i \in Positions(initial_world.npcs) : InsideWorld(getPosition(initial_world.npcs[i]))
   /\ \A k \in Positions(initial_world.objects) :
        InsideWorld(getPosition(initial_world.objects[k])))
  => /\ \A i \in NPCIndices : InsideWorld(getPosition(world.npcs[i]))
     /\ \A i \in Positions(world_after_actions.npcs) :
          InsideWorld(getPosition(world_after_actions.npcs[i]))

\* an agent that started 2 short of the far edge was stopped at it by its
\* first untargeted move and at the near edge by its second
C36_Witness ==
  /\ TicksRun = 2
  /\ \E i \in NPCIndices :
       /\ getPosition(initial_world.npcs[i]).x = 998
       /\ tick_input.npcs[i].identity.current_action = Some("Move")
       /\ getPosition(tick_input.npcs[i]).x = 1000
       /\ world.npcs[i].identity.current_action = Some("Move")
       /\ getPosition(tick_input.npcs[i]).y \in 1..15
       /\ getPosition(world.npcs[i]).y = 0

\* agent i chose Follow in the last tick
Follows(i) == world_with_actions.npcs[i].identity.current_action = Some("Follow")

\* the agents of the world the last tick started from that have the id of
\* the target agent i chose
TargetsOf(i) ==
  {j \in Positions(tick_input.npcs) :
     /\ HasValue(world_with_actions.npcs[i].identity.target_entity)
     /\ getId(tick_input.npcs[j]) = Value(world_with_actions.npcs[i].identity.target_entity).id}

\* the squared distance, at the start of the last tick, from agent i to agent j
StartDistanceSquared(i, j) ==
  DistanceSquared(getPosition(tick_input.npcs[i]), getPosition(tick_input.npcs[j]))

\* C37: in a full tick an agent whose selected action is Follow keeps its
\* position unless its target is at distance exactly 10 at the start of the
\* tick: Follow is offered only for agents within 10 units, and execution
\* measures the distance to the same start-of-tick position of the target.
C37_FollowMovesOnlyAtTen ==
  TickHasRun =>
    \A i \in NPCIndices :
      Follows(i) =>
        /\ TargetsOf(i) # {}
        /\ \A j \in TargetsOf(i) :
             /\ j # i
             /\ StartDistanceSquared(i, j) <= 10 * 10
             /\ Value(world_with_actions.npcs[i].identity.target_entity).position
                  = getPosition(tick_input.npcs[j])
             /\ StartDistanceSquared(i, j) # 10 * 10 =>
                  getPosition(world.npcs[i]) = getPosition(tick_input.npcs[i])

\* an agent that has moved in an earlier tick chose Follow with its target
\* nearer than 10 and stayed where it was
C37_Witness ==
  /\ TicksRun >= 2
  /\ \E i \in NPCIndices :
       /\ Follows(i)
       /\ \E j \in TargetsOf(i) :
            StartDistanceSquared(i, j) > 0 /\ StartDistanceSquared(i, j) < 10 * 10
       /\ getPosition(tick_input.npcs[i]) # getPosition(initial_world.npcs[i])
       /\ getPosition(world.npcs[i]) = getPosition(tick_input.npcs[i])

\* the actions of the options selection was given for agent i in the last
\* tick that name no target and come from no memory
UntargetedOffered(i) ==
  LET options == generatePrimitiveActions(tick_input.npcs[i], tick_input)
  IN {options[k].action : k \in {k \in 1..Len(options) :
                                   /\ ~HasValue(options[k].target_entity)
                                   /\ ~HasValue(options[k].target_object)
                                   /\ ~options[k].from_memory}}

\* C38: from the end of the first tick onward every agent has a
\* current_action set: the options given to selection are never empty, because
\* untargeted Move, Build and Gesture are always generated.
C38_EveryAgentHasAnAction ==
  TickHasRun =>
    \A i \in NPCIndices :
      /\ {"Move", "Build", "Gesture"} \subseteq UntargetedOffered(i)
      /\ HasValue(world_with_actions.npcs[i].identity.current_action)
      /\ HasValue(world.npcs[i].identity.current_action)

\* after the first tick of a world whose agents have nothing near them, the
\* three untargeted options were all there was to choose from and every agent
\* has chosen one of them
C38_Witness ==
  /\ TicksRun = 1
  /\ \A i \in NPCIndices :
       /\ ~HasValue(initial_world.npcs[i].identity.current_action)
       /\ Len(generatePrimitiveActions(tick_input.npcs[i], tick_input)) = 3
       /\ HasValue(world.npcs[i].identity.current_action)
       /\ Value(world.npcs[i].identity.current_action) \in {"Move", "Build", "Gesture"}

\* the drive parameters of the call and the agent the ticks started from
GrowthOf == Value(arguments).params.drive_params
StartedAs == Value(arguments).npc

\* the rate and every growth modifier are positive
GrowsEverywhere ==
  /\ GrowthOf.base_growth_rate > 0
  /\ \A k \in Positions(GrowthOf.drive_growth_modifiers) :
       GrowthOf.drive_growth_modifiers[k][2] > 0

\* every drive of the agent is at 100
AllAtTop ==
  \A k \in Positions(Value(returned).drives) :
    Value(returned).drives[k].intensity = MaxIntensity

TicksAsked == Value(arguments).total_ticks
TicksDone == Value(arguments).total_ticks - Value(arguments).remaining_ticks

\* so far every tick has advanced current_tick by exactly 1 and called the
\* callback once, and the world returned is the one after TicksAsked ticks
ExactlyTheTicksAsked ==
  /\ world.clock.current_tick = initial_world.clock.current_tick + TicksDone
  /\ world.clock.current_tick = tick_input.clock.current_tick + (IF TicksDone = 0 THEN 0 ELSE 1)
  /\ Len(callback_calls) = TicksDone
  /\ Value(arguments).current_tick = TicksDone + 1
  /\ HasValue(returned) =>
       /\ TicksDone = TicksAsked
       /\ Value(returned) = world
       /\ Value(returned).clock.current_tick
            = initial_world.clock.current_tick + TicksAsked
       /\ TicksAsked = 0 => Value(returned) = initial_world

\* C40: runSimulation with tick count N terminates after executing exactly N
\* ticks and returns a world whose current_tick is the initial current_tick
\* + N, each tick advancing current_tick by exactly 1; with N = 0 it returns
\* the input world unchanged.
C40_RunsExactlyNTicks == []ExactlyTheTicksAsked /\ <>HasValue(returned)

\* a run of three ticks on a clock that had already run has returned
C40_Witness ==
  /\ HasValue(returned)
  /\ TicksAsked = 3
  /\ initial_world.clock.current_tick = 5
  /\ Value(returned).clock.current_tick = 8
  /\ Value(returned) # initial_world

=============================================================================
